---- MODULE Spec2Model ----
(***************************************************************************)
(* Capture-and-stream pipeline of the real-time audio/video analysis       *)
(* client: the StreamChannel (src/hooks/useWebSocket.ts, first revision in *)
(* the file, lines 1-254) and the CaptureController with its               *)
(* RecorderNegotiator and AudioChunkAggregator                             *)
(* (src/components/MediaCapture.tsx).                                      *)
(*                                                                         *)
(* The browser is the environment: it decides when a socket opens, errors  *)
(* or closes and with which close code, when a timer fires, whether a      *)
(* device or an encoder configuration works, and when an encoder hands     *)
(* over a fragment.  Handlers are total over these events, so every event  *)
(* is offered with every value of its small input set.  What the browser  *)
(* does with an encoder configuration is a property of the browser: it is  *)
(* drawn once, from Profiles, and holds for the whole behaviour.           *)
(***************************************************************************)
EXTENDS Integers, Sequences, FiniteSets, TLC

VARIABLES
  \* ---- StreamChannel: useWebSocket(url) ----
  url,               \* the hook's argument, a sequence of characters
  pageProtocol,      \* location.protocol
  effect,            \* "unmounted" | "mounted" | "cleaned": the useEffect's life
  wsRef,             \* wsRef.current: 0 (null) or an index into sockets
  sockets,           \* every WebSocket created: [url, readyState, watchdog]
  isConnected,       \* useState isConnected
  error,             \* useState error
  retryCount,        \* let retryCount of the effect closure
  reconnectTimeout,  \* let reconnectTimeout: 0 (undefined) or the latest timer id
  timers,            \* pending reconnect timers: set of [id, delay]
  dialPending,       \* pending setTimeout(..., delay) of connect(): their finalUrl
  sent,              \* frames written to sockets: [sock, type]
  readers,           \* FileReaders of sendAudioData that have not loaded:
                     \*   [sock], the socket that was open at the call
  messages,          \* useState messages: the parsed messages, oldest first
  \* history of the channel
  opens,             \* open events so far
  attempts,          \* sockets dialed since the last open (or since the start)
  connectCalls,      \* calls of connect()
  downgradeReports,  \* calls of setError(<insecure WebSocket warning>)
  lastEvent,         \* the handler that ran last: [type, code, n]
  \* ---- CaptureController: MediaCapture ----
  audioCtxSupported, \* window.AudioContext || webkitAudioContext is defined
  profile,           \* what the browser does with each candidate of configs
  streamRef,         \* streamRef.current: 0 (null) or an index into streams
  streams,           \* every MediaStream acquired: [live, session]
  mediaRecorderRef,  \* mediaRecorderRef.current: 0 or an index into recorders
  recorders,         \* every live MediaRecorder: [session, cfg, state,
                     \*   startPending, stopPending]
  trials,            \* trial recorders left recording by a timed-out probe
  frameIntervalRef,  \* frameIntervalRef.current: 0 or a running interval's id
  frameTimers,       \* running frame-sampling intervals
  audioChunkTimerRef,\* audioChunkTimerRef.current: 0 or an interval's id
  chunkTimers,       \* running flush intervals (id: the recorder that set it)
  animationRef,      \* animationRef.current is set
  audioContextRef,   \* audioContextRef.current: 0 or an index into contexts
  contexts,          \* every AudioContext created: "running" | "closed"
  analyserRef,       \* analyserRef.current is set
  isStreaming,       \* useState isStreaming
  captureError,      \* useState error of MediaCapture
  permissionStatus,  \* useState permissionStatus
  isCapturing,       \* the page's isCapturing, set by onStartCapture/onStopCapture
  sessions,          \* the calls of startMediaCapture, each with its closure:
                     \*   [pc, cand, stream, workingConfig, recorder,
                     \*    audioChunks, sinceFlush, outcome, onStart]
  \* history of the capture
  fragCount,         \* dataavailable events so far
  dispatched,        \* what the last step handed to onAudioData: <<>> or
                     \*   <<[session, frags, size, window]>>
  lastOp,            \* the capture step that ran last: [op, k, n]
  \* ---- TranscriptionSession: useWebSpeechAPI ----
  isSupported,       \* useState isSupported, after the support check
  isListening,       \* useState isListening
  speechError,       \* useState error of useWebSpeechAPI
  results,           \* useState results: [text, isFinal, timestamp]
  now,               \* Date.now() at the last onresult
  transcriptions,    \* the page's useState transcriptions: [text, timestamp]
  currentLanguage,   \* useState currentLanguage
  initClosure,       \* the isListening and error the memoized
                     \*   initializeRecognition closes over
  recognitionRef,    \* recognitionRef.current: 0 or an index into recognitions
  recognitions,      \* every SpeechRecognition created: [state, lang, closure]
  listenTimers,      \* pending 100 ms timers of startListening, oldest first
  restartTimers,     \* pending 100 ms timers of onend: the recognition to start
  \* history of the transcription
  listens,           \* calls of handleStartCapture outside a capture
  languageChanges,   \* uses of the language selector
  lastSpeech         \* the transcription step that ran last: [ev, r, kind]

chanVars == <<url, pageProtocol, effect, wsRef, sockets, isConnected, error,
              retryCount, reconnectTimeout, timers, dialPending, sent, readers,
              messages, opens, attempts, connectCalls, downgradeReports, lastEvent>>

capRest == <<audioCtxSupported, profile, streamRef, streams, mediaRecorderRef,
             recorders, trials, frameIntervalRef, frameTimers, audioChunkTimerRef,
             chunkTimers, animationRef, audioContextRef, contexts, analyserRef,
             isStreaming, captureError, permissionStatus, sessions, fragCount,
             dispatched, lastOp>>

capVars == <<capRest, isCapturing>>

\* what neither startListening nor stopListening touches
speechRest == <<isSupported, isListening, results, now, transcriptions,
                currentLanguage,
                initClosure, restartTimers, listens, languageChanges,
                lastSpeech>>

speechVars == <<speechError, recognitionRef, recognitions, listenTimers,
                speechRest>>

vars == <<chanVars, capVars, speechVars>>

----------------------------------------------------------------------------
\* Bounds of the model

\* open events the environment grants in one behaviour
MaxOpens == 1

\* messages the hook stores in one behaviour
MaxMessages == 2

\* calls of startMediaCapture in one behaviour
MaxSessions == 1

\* fragments the encoders hand over while recording in one behaviour (each
\* hands over one more when it stops)
MaxFragments == 2

\* inputs of the page to the transcription in one behaviour: calls of
\* handleStartCapture and uses of the language selector together
MaxPageInputs == 3

\* entries of results in one behaviour of the transcription
MaxResults == 1

\* entries of results in one behaviour of the transcript
MaxUtterances == 3

----------------------------------------------------------------------------
\* Strings are sequences of one-character strings

WssScheme == <<"w","s","s",":","/","/">>

WsScheme == <<"w","s",":","/","/">>

Localhost4000 == <<"l","o","c","a","l","h","o","s","t",":","4","0","0","0">>

\* the URLs the hook is given in the model: secure, insecure, and two whose
\* query repeats the secure scheme
Urls ==
  { WssScheme \o Localhost4000,
    WsScheme \o Localhost4000,
    WssScheme \o <<"h","?">> \o WssScheme,
    WsScheme \o <<"h","?">> \o WssScheme }

PageProtocols == {"http:", "https:", "file:"}

\* String.prototype.startsWith
StartsWith(s, p) == Len(s) >= Len(p) /\ SubSeq(s, 1, Len(p)) = p

\* String.prototype.indexOf, 1-based; 0 when p does not occur
IndexOf(s, p) ==
  LET hits == { i \in 1..Len(s) : i + Len(p) - 1 <= Len(s)
                                  /\ SubSeq(s, i, i + Len(p) - 1) = p }
  IN IF hits = {} THEN 0 ELSE CHOOSE i \in hits : \A j \in hits : i <= j

\* String.prototype.replace with a string pattern: the first occurrence only
ReplaceFirst(s, p, r) ==
  LET i == IndexOf(s, p)
  IN IF i = 0 THEN s
     ELSE SubSeq(s, 1, i - 1) \o r \o SubSeq(s, i + Len(p), Len(s))

Min(a, b) == IF a <= b THEN a ELSE b

RECURSIVE Pow2(_)
Pow2(n) == IF n = 0 THEN 1 ELSE 2 * Pow2(n - 1)

----------------------------------------------------------------------------
\* StreamChannel

maxRetries == 5

\* close codes the environment delivers
CloseCodes == {1000, 1001, 1005, 1006, 1011}

isHttps == pageProtocol = "https:"

needsDowngradeNoHttpsCheck(u) == StartsWith(u, WssScheme)

\* the condition of the mixed-content rewrite
needsDowngrade(u) == StartsWith(u, WssScheme) /\ ~isHttps

finalUrlKeep(u) == u

\* the URL connect() dials
finalUrl(u) ==
  IF needsDowngrade(u) THEN ReplaceFirst(u, WssScheme, WsScheme) ELSE u

shouldReconnectNo1001(code, n) ==
  code /= 1000 /\ code /= 1005 /\ n < maxRetries

shouldReconnectOffByOne(code, n) ==
  code /= 1000 /\ code /= 1001 /\ code /= 1005 /\ n < maxRetries - 1

shouldReconnectNoCeiling(code, n) ==
  code /= 1000 /\ code /= 1001 /\ code /= 1005 /\ n <= maxRetries

\* onclose's shouldReconnect, n the retry count when the close is handled
shouldReconnect(code, n) ==
  code /= 1000 /\ code /= 1001 /\ code /= 1005 /\ n < maxRetries

backoffDelayUncapped(n) == 1000 * Pow2(n)

\* the reconnect delay, n the retry count after its increment
backoffDelay(n) == Min(1000 * Pow2(n), 10000)

Ev(t, c, n) == [type |-> t, code |-> c, n |-> n]

InitChannel ==
  /\ url \in Urls
  /\ pageProtocol \in PageProtocols
  /\ effect = "unmounted"
  /\ wsRef = 0
  /\ sockets = <<>>
  /\ isConnected = FALSE
  /\ error = "null"
  /\ retryCount = 0
  /\ reconnectTimeout = 0
  /\ timers = {}
  /\ dialPending = <<>>
  /\ sent = <<>>
  /\ readers = <<>>
  /\ messages = <<>>
  /\ opens = 0
  /\ attempts = 0
  /\ connectCalls = 0
  /\ downgradeReports = 0
  /\ lastEvent = Ev("none", 0, 0)

\* connect(): the rewrite, the warning, and the delayed dial.  err is the
\* error state connect() starts from.
connect(err) ==
  /\ dialPending' = Append(dialPending, finalUrl(url))
  /\ error' = IF needsDowngrade(url) THEN "InsecureWebSocket" ELSE err
  /\ downgradeReports' =
       IF needsDowngrade(url) THEN downgradeReports + 1 ELSE downgradeReports
  /\ connectCalls' = connectCalls + 1

\* the effect body: let retryCount = 0; connect()
EffectMount ==
  /\ effect = "unmounted"
  /\ effect' = "mounted"
  /\ retryCount' = 0
  /\ connect(error)
  /\ lastEvent' = Ev("mount", 0, retryCount')
  /\ UNCHANGED <<messages, readers>>
  /\ UNCHANGED <<capVars, speechVars>>
  /\ UNCHANGED <<url, pageProtocol, wsRef, sockets, isConnected,
                 reconnectTimeout, timers, sent, opens, attempts>>

\* the setTimeout callback of connect(): new WebSocket(finalUrl) and the
\* connection watchdog; the constructor throws on a mixed-content URL
Dial(throws) ==
  /\ dialPending /= <<>>
  /\ throws => (isHttps /\ StartsWith(Head(dialPending), WsScheme))
  /\ dialPending' = Tail(dialPending)
  /\ attempts' = attempts + 1
  /\ IF throws
       THEN /\ error' = "CreateFailed"
            /\ UNCHANGED <<sockets, wsRef>>
       ELSE /\ sockets' = Append(sockets, [url |-> Head(dialPending),
                                           readyState |-> "CONNECTING",
                                           watchdog |-> TRUE,
                                           stale |-> FALSE])
            /\ wsRef' = Len(sockets) + 1
            /\ UNCHANGED error
  /\ lastEvent' = Ev("dial", 0, retryCount)
  /\ UNCHANGED <<messages, readers>>
  /\ UNCHANGED <<capVars, speechVars>>
  /\ UNCHANGED <<url, pageProtocol, effect, isConnected, retryCount,
                 reconnectTimeout, timers, sent, opens, connectCalls,
                 downgradeReports>>

clearTimeoutKept(w) == w

\* clearTimeout(connectionTimeout): the watchdog is no longer pending
clearTimeout(w) == FALSE

\* the connectionTimeout callback
ConnectionTimeout(s) ==
  /\ s \in 1..Len(sockets)
  /\ sockets[s].watchdog
  /\ sockets' = [sockets EXCEPT ![s].watchdog = FALSE,
                                ![s].readyState =
                                   IF @ = "CONNECTING" THEN "CLOSING" ELSE @]
  /\ lastEvent' = Ev("watchdog", 0, retryCount)
  /\ UNCHANGED <<messages, readers>>
  /\ UNCHANGED <<capVars, speechVars>>
  /\ UNCHANGED <<url, pageProtocol, effect, wsRef, isConnected, error,
                 retryCount, reconnectTimeout, timers, dialPending, sent,
                 opens, attempts, connectCalls, downgradeReports>>

retryAfterOpenKept(n) == n

\* onopen's retryCount = 0
retryAfterOpen(n) == 0

\* ws.onopen
onopen(s, limit) ==
  /\ s \in 1..Len(sockets)
  /\ sockets[s].readyState = "CONNECTING"
  /\ opens < limit
  /\ sockets' = [sockets EXCEPT ![s].readyState = "OPEN",
                                ![s].watchdog = clearTimeout(@)]
  /\ isConnected' = TRUE
  /\ error' = "null"
  /\ retryCount' = retryAfterOpen(retryCount)
  /\ sent' = Append(sent, [sock |-> s, type |-> "ping"])
  /\ opens' = opens + 1
  /\ attempts' = 0
  /\ lastEvent' = Ev("open", 0, retryCount)
  /\ UNCHANGED <<messages, readers>>
  /\ UNCHANGED <<capVars, speechVars>>
  /\ UNCHANGED <<url, pageProtocol, effect, wsRef, reconnectTimeout, timers,
                 dialPending, connectCalls, downgradeReports>>

OnOpen(s) == onopen(s, MaxOpens)

\* ws.onclose
OnClose(s, code) ==
  /\ s \in 1..Len(sockets)
  /\ sockets[s].readyState /= "CLOSED"
  /\ sockets' = [sockets EXCEPT ![s].readyState = "CLOSED",
                                ![s].watchdog = clearTimeout(@)]
  /\ isConnected' = FALSE
  /\ IF shouldReconnect(code, retryCount)
       THEN /\ retryCount' = retryCount + 1
            /\ reconnectTimeout' = reconnectTimeout + 1
            /\ timers' = timers \cup {[id |-> reconnectTimeout + 1,
                                        delay |-> backoffDelay(retryCount + 1)]}
            /\ UNCHANGED error
       ELSE /\ error' = IF retryCount >= maxRetries THEN "MaxRetries" ELSE error
            /\ UNCHANGED <<retryCount, reconnectTimeout, timers>>
  /\ lastEvent' = Ev("close", code, retryCount)
  /\ UNCHANGED <<messages, readers>>
  /\ UNCHANGED <<capVars, speechVars>>
  /\ UNCHANGED <<url, pageProtocol, effect, wsRef, dialPending, sent, opens,
                 attempts, connectCalls, downgradeReports>>

\* ws.onerror
OnError(s) ==
  /\ s \in 1..Len(sockets)
  /\ sockets[s].readyState \in {"CONNECTING", "OPEN"}
  /\ sockets' = [sockets EXCEPT ![s].watchdog = clearTimeout(@)]
  /\ error' = "WsError"
  /\ lastEvent' = Ev("error", 0, retryCount)
  /\ UNCHANGED <<messages, readers>>
  /\ UNCHANGED <<capVars, speechVars>>
  /\ UNCHANGED <<url, pageProtocol, effect, wsRef, isConnected, retryCount,
                 reconnectTimeout, timers, dialPending, sent, opens, attempts,
                 connectCalls, downgradeReports>>

\* the reconnect timer's callback: connect()
ReconnectTimer(t) ==
  /\ t \in timers
  /\ timers' = timers \ {t}
  /\ connect(error)
  /\ lastEvent' = Ev("reconnect", 0, retryCount)
  /\ UNCHANGED <<messages, readers>>
  /\ UNCHANGED <<capVars, speechVars>>
  /\ UNCHANGED <<url, pageProtocol, effect, wsRef, sockets, isConnected,
                 retryCount, reconnectTimeout, sent, opens, attempts>>

\* the effect's cleanup
EffectCleanup ==
  /\ effect = "mounted"
  /\ effect' = "cleaned"
  /\ timers' = {t \in timers : t.id /= reconnectTimeout}
  /\ sockets' = IF wsRef /= 0 /\ sockets[wsRef].readyState = "OPEN"
                  THEN [sockets EXCEPT ![wsRef].readyState = "CLOSING"]
                  ELSE sockets
  /\ lastEvent' = Ev("cleanup", 0, retryCount)
  /\ UNCHANGED <<messages, readers>>
  /\ UNCHANGED <<capVars, speechVars>>
  /\ UNCHANGED <<url, pageProtocol, wsRef, isConnected, error, retryCount,
                 reconnectTimeout, dialPending, sent, opens, attempts,
                 connectCalls, downgradeReports>>

\* the text frames the server sends: two messages the page handles, a pong,
\* the JSON text null, and a text that is not JSON
Payloads ==
  { "{\"type\":\"transcription\"}", "{\"type\":\"error\"}",
    "{\"type\":\"pong\"}", "null", "not json" }

\* JSON.parse(text): the value's kind and, for an object, its type;
\* kind "SyntaxError" when parse throws
JSONparse(text) ==
  CASE text = "{\"type\":\"transcription\"}" ->
         [kind |-> "object", type |-> "transcription"]
    [] text = "{\"type\":\"error\"}" -> [kind |-> "object", type |-> "error"]
    [] text = "{\"type\":\"pong\"}" -> [kind |-> "object", type |-> "pong"]
    [] text = "null" -> [kind |-> "null", type |-> "none"]
    [] OTHER -> [kind |-> "SyntaxError", type |-> "none"]

\* the try block throws: JSON.parse does, or reading message.type of null does
tryThrows(v) == v.kind /= "object"

consumedNone(type) == FALSE

\* message.type === 'pong': onmessage returns before setMessages
consumed(type) == type = "pong"

afterThrowCleared(msgs) == <<>>

\* the catch block only logs
afterThrow(msgs) == msgs

\* what onmessage makes of the messages for a frame with this text
received(msgs, text) ==
  LET v == JSONparse(text)
  IN  IF tryThrows(v) THEN afterThrow(msgs)
      ELSE IF consumed(v.type) THEN msgs
      ELSE Append(msgs, [type |-> v.type])

MsgEv(text) == [type |-> "message", code |-> 0, n |-> retryCount, text |-> text]

\* ws.onmessage with event.data = text
OnMessage(s, text) ==
  /\ s \in 1..Len(sockets)
  /\ sockets[s].readyState = "OPEN"
  /\ text \in Payloads
  /\ Len(received(messages, text)) <= MaxMessages
  /\ messages' = received(messages, text)
  /\ lastEvent' = MsgEv(text)
  /\ UNCHANGED readers
  /\ UNCHANGED <<capVars, speechVars>>
  /\ UNCHANGED <<url, pageProtocol, effect, wsRef, sockets, isConnected, error,
                 retryCount, reconnectTimeout, timers, dialPending, sent,
                 opens, attempts, connectCalls, downgradeReports>>

ChannelNext ==
  \/ EffectMount
  \/ \E throws \in BOOLEAN : Dial(throws)
  \/ \E s \in 1..Len(sockets) : ConnectionTimeout(s)
  \/ \E s \in 1..Len(sockets) : OnOpen(s)
  \/ \E s \in 1..Len(sockets), text \in Payloads : OnMessage(s, text)
  \/ \E s \in 1..Len(sockets), code \in CloseCodes : OnClose(s, code)
  \/ \E s \in 1..Len(sockets) : OnError(s)
  \/ \E t \in timers : ReconnectTimer(t)
  \/ EffectCleanup


----------------------------------------------------------------------------
\* TranscriptionSession: useWebSpeechAPI

\* the languages the page's selector offers
supportedLanguages == {"en-US", "es-ES", "es-MX"}

\* event.error of recognition.onerror: the kind that is ignored, two kinds with
\* a message of their own, and one of the default branch
SpeechErrorKinds == {"no-speech", "not-allowed", "network", "aborted"}

\* the message onerror sets for an error kind
errorMessage(kind) ==
  CASE kind = "audio-capture" -> "MicrophoneNotAvailable"
    [] kind = "not-allowed" -> "MicrophonePermissionDenied"
    [] kind = "network" -> "NetworkError"
    [] kind = "service-not-allowed" -> "ServiceNotAllowed"
    [] OTHER -> "SpeechRecognitionError"

Sp(e, r, kind) == [ev |-> e, r |-> r, kind |-> kind]

InitSpeech ==
  /\ isSupported \in BOOLEAN
  /\ isListening = FALSE
  /\ speechError = IF isSupported THEN "null" ELSE "NotSupportedInBrowser"
  /\ results = <<>>
  /\ now = 0
  /\ transcriptions = <<>>
  /\ currentLanguage = "en-US"
  /\ initClosure = [listening |-> FALSE, error |-> "null"]
  /\ recognitionRef = 0
  /\ recognitions = <<>>
  /\ listenTimers = <<>>
  /\ restartTimers = {}
  /\ listens = 0
  /\ languageChanges = 0
  /\ lastSpeech = Sp("none", 0, "none")

\* what a startListening memoized now closes over: the language and the
\* isListening and error of the render that made initializeRecognition
listenClosure == [lang |-> currentLanguage, init |-> initClosure]

\* recognition.stop() on recognition r of rs
recognitionStopped(rs, r) ==
  IF rs[r].state \in {"starting", "active"}
    THEN [rs EXCEPT ![r].state = "ending"]
    ELSE rs

\* startListening() of closure c: the transcription variables after the call
startListening(c) ==
  IF ~isSupported
    THEN /\ speechError' = "NotSupported"
         /\ UNCHANGED <<recognitionRef, recognitions, listenTimers>>
    ELSE /\ speechError' = "null"
         /\ recognitions' = IF recognitionRef /= 0
                              THEN recognitionStopped(recognitions, recognitionRef)
                              ELSE recognitions
         /\ recognitionRef' = 0
         /\ listenTimers' = Append(listenTimers, c)

\* stopListening(): the transcription variables after the call
stopListening ==
  /\ recognitions' = IF recognitionRef /= 0
                       THEN recognitionStopped(recognitions, recognitionRef)
                       ELSE recognitions
  /\ UNCHANGED <<speechError, recognitionRef, listenTimers>>

\* the page's handleStartCapture, called with the closure c the caller holds
handleStartCapture(c) ==
  /\ isCapturing' = TRUE
  /\ IF isSupported
       THEN startListening(c)
       ELSE UNCHANGED <<speechError, recognitionRef, recognitions,
                        listenTimers>>

capturingAfterStopToggle(cur) == ~cur

\* setIsCapturing(false) of handleStopCapture
capturingAfterStop(cur) == FALSE

\* the page's handleStopCapture
handleStopCapture ==
  /\ isCapturing' = capturingAfterStop(isCapturing)
  /\ stopListening

\* the 100 ms timer of startListening fires: initializeRecognition(lang),
\* recognition.start(), setCurrentLanguage(lang)
ListenTimer ==
  /\ listenTimers /= <<>>
  /\ LET c == Head(listenTimers)
     IN /\ recognitions' = Append(recognitions,
              [state |-> "starting", lang |-> c.lang, closure |-> c.init])
        /\ recognitionRef' = Len(recognitions) + 1
        /\ currentLanguage' = c.lang
        /\ initClosure' = IF c.lang /= currentLanguage
                            THEN [listening |-> isListening,
                                  error |-> speechError]
                            ELSE initClosure
  /\ listenTimers' = Tail(listenTimers)
  /\ lastSpeech' = Sp("created", Len(recognitions) + 1, "none")
  /\ UNCHANGED <<isSupported, isListening, speechError, results, now, transcriptions,
                 restartTimers, listens, languageChanges>>
  /\ UNCHANGED <<chanVars, capVars>>

\* recognition.onstart
RecognitionOnStart(r) ==
  /\ r \in 1..Len(recognitions)
  /\ recognitions[r].state = "starting"
  /\ recognitions' = [recognitions EXCEPT ![r].state = "active"]
  /\ isListening' = TRUE
  /\ speechError' = "null"
  /\ lastSpeech' = Sp("start", r, "none")
  /\ UNCHANGED <<isSupported, results, now, transcriptions, currentLanguage, initClosure,
                 recognitionRef, listenTimers, restartTimers, listens,
                 languageChanges>>
  /\ UNCHANGED <<chanVars, capVars>>

\* whether onerror returns before it sets anything
ignoredNone(kind) == FALSE

ignored(kind) == kind = "no-speech"

\* recognition.onerror with event.error = kind; the engine goes on after the
\* event or is about to end (ends)
RecognitionOnError(r, kind, ends) ==
  /\ r \in 1..Len(recognitions)
  /\ recognitions[r].state \in {"starting", "active"}
  /\ kind \in SpeechErrorKinds
  /\ kind /= "no-speech" => ends
  /\ recognitions' = IF ends THEN [recognitions EXCEPT ![r].state = "ending"]
                             ELSE recognitions
  /\ IF ignored(kind)
       THEN UNCHANGED <<speechError, isListening>>
       ELSE /\ speechError' = errorMessage(kind)
            /\ isListening' = FALSE
  /\ lastSpeech' = Sp("error", r, kind)
  /\ UNCHANGED <<isSupported, results, now, transcriptions, currentLanguage, initClosure,
                 recognitionRef, listenTimers, restartTimers, listens,
                 languageChanges>>
  /\ UNCHANGED <<chanVars, capVars>>

restartsAlways(c) == TRUE

\* onend's test: isListening && !error of the closure c of the recognition
restarts(c) == c.listening /\ c.error = "null"

\* recognition.onend: the engine ended by itself, after stop() or after an
\* error
RecognitionOnEnd(r) ==
  /\ r \in 1..Len(recognitions)
  /\ recognitions[r].state \in {"starting", "active", "ending"}
  /\ recognitions' = [recognitions EXCEPT ![r].state = "ended"]
  /\ isListening' = FALSE
  /\ restartTimers' = IF restarts(recognitions[r].closure)
                        THEN restartTimers \cup {r}
                        ELSE restartTimers
  /\ lastSpeech' = Sp("end", r, "none")
  /\ UNCHANGED <<isSupported, speechError, results, now, transcriptions, currentLanguage,
                 initClosure, recognitionRef, listenTimers, listens,
                 languageChanges>>
  /\ UNCHANGED <<chanVars, capVars>>

\* the 100 ms timer of onend fires: recognition.start(), which throws (and is
\* caught) unless the recognition is ended
RestartTimer(r) ==
  /\ r \in restartTimers
  /\ restartTimers' = restartTimers \ {r}
  /\ recognitions' = IF recognitions[r].state = "ended"
                       THEN [recognitions EXCEPT ![r].state = "starting"]
                       ELSE recognitions
  /\ lastSpeech' = Sp("restart", r, "none")
  /\ UNCHANGED <<isSupported, isListening, speechError, results, now, transcriptions,
                 currentLanguage, initClosure, recognitionRef, listenTimers,
                 listens, languageChanges>>
  /\ UNCHANGED <<chanVars, capVars>>

\* setResults of onresult for one result: a final result is appended, an
\* interim one replaces a trailing interim one or is appended
replacesLastAlways(rs) == rs /= <<>>

\* lastIndex >= 0 && !newResults[lastIndex].isFinal
replacesLast(rs) == rs /= <<>> /\ ~rs[Len(rs)].isFinal

withResult(rs, res) ==
  IF res.isFinal THEN Append(rs, res)
  ELSE IF replacesLast(rs) THEN [rs EXCEPT ![Len(rs)] = res]
  ELSE Append(rs, res)

\* the loop of onresult over the results of one event, each stamped with the
\* time at of the event
RECURSIVE withResults(_, _, _)
withResults(rs, evResults, at) ==
  IF evResults = <<>> THEN rs
  ELSE withResults(withResult(rs, [text |-> Head(evResults).text,
                                   isFinal |-> Head(evResults).isFinal,
                                   timestamp |-> at]),
                   Tail(evResults), at)

\* recognition.onresult of recognition r: the event brings evResults, dt ms
\* after the previous event; limit bounds the entries of results
onresult(r, evResults, dt, limit) ==
  /\ r \in 1..Len(recognitions)
  /\ recognitions[r].state = "active"
  /\ now + dt <= 1000 * limit
  /\ Len(withResults(results, evResults, now + dt)) <= limit
  /\ now' = now + dt
  /\ results' = withResults(results, evResults, now + dt)
  /\ lastSpeech' = Sp("result", r, "none")
  /\ UNCHANGED <<isSupported, isListening, speechError, currentLanguage,
                 initClosure, recognitionRef, recognitions, listenTimers,
                 restartTimers, listens, languageChanges, transcriptions>>
  /\ UNCHANGED <<chanVars, capVars>>

\* recognition.onresult with one new result
RecognitionOnResult(r, final) ==
  /\ Len(results) < MaxResults
  /\ onresult(r, <<[text |-> <<"a">>, isFinal |-> final]>>, 0, MaxResults)

\* the language selector: setLanguage(l)
SetLanguage(l) ==
  /\ l \in supportedLanguages
  /\ l /= currentLanguage
  /\ listens + languageChanges < MaxPageInputs
  /\ languageChanges' = languageChanges + 1
  /\ currentLanguage' = l
  /\ initClosure' = [listening |-> isListening, error |-> speechError]
  /\ lastSpeech' = Sp("language", 0, "none")
  /\ UNCHANGED <<isSupported, isListening, speechError, results, now, transcriptions,
                 recognitionRef, recognitions, listenTimers, restartTimers,
                 listens>>
  /\ UNCHANGED <<chanVars, capVars>>

\* the capture reports that it began: handleStartCapture
HandleStartCapture ==
  /\ listens + languageChanges < MaxPageInputs
  /\ handleStartCapture(listenClosure)
  /\ listens' = listens + 1
  /\ lastSpeech' = Sp("startListening", 0, "none")
  /\ UNCHANGED <<isSupported, isListening, results, now, transcriptions, currentLanguage,
                 initClosure, restartTimers, languageChanges>>
  /\ UNCHANGED chanVars
  /\ UNCHANGED capRest

\* the capture reports that it ended: handleStopCapture
HandleStopCapture ==
  /\ handleStopCapture
  /\ lastSpeech' = Sp("stopListening", 0, "none")
  /\ UNCHANGED <<isSupported, isListening, results, now, transcriptions, currentLanguage,
                 initClosure, restartTimers, listens, languageChanges>>
  /\ UNCHANGED chanVars
  /\ UNCHANGED capRest

\* the recognition engine's events, the timers and the language selector
SpeechEvents ==
  \/ ListenTimer
  \/ \E r \in 1..Len(recognitions) : RecognitionOnStart(r)
  \/ \E r \in 1..Len(recognitions), kind \in SpeechErrorKinds,
        ends \in BOOLEAN : RecognitionOnError(r, kind, ends)
  \/ \E r \in 1..Len(recognitions) : RecognitionOnEnd(r)
  \/ \E r \in restartTimers : RestartTimer(r)
  \/ \E r \in 1..Len(recognitions), final \in BOOLEAN :
       RecognitionOnResult(r, final)
  \/ \E l \in supportedLanguages : SetLanguage(l)

SpeechNext ==
  \/ SpeechEvents
  \/ HandleStartCapture
  \/ HandleStopCapture

-----------------------------------------------------------------------------
\* Transcript delivery: the page's effect on speechResults

\* transcripts the engine delivers, as sequences of characters
Texts == { <<"a">>, <<"a", " ">>, <<"b">> }

\* milliseconds between two result events
Gaps == {0, 1000}

\* the results one event brings: one, or two in one event
EventResults ==
  LET One == [text : Texts, isFinal : BOOLEAN]
  IN  { <<x>> : x \in One } \cup { <<x, y>> : x \in One, y \in One }

\* String.prototype.trim()
RECURSIVE trim(_)
trim(t) ==
  IF t = <<>> THEN t
  ELSE IF Head(t) = " " THEN trim(Tail(t))
  ELSE IF t[Len(t)] = " " THEN trim(SubSeq(t, 1, Len(t) - 1))
  ELSE t

Abs(x) == IF x < 0 THEN 0 - x ELSE x

withinWindowNever(d) == FALSE

\* Math.abs(t.timestamp - newTranscription.timestamp) < 1000
withinWindow(d) == Abs(d) < 1000

\* the updater of setTranscriptions for one final result
addTranscription(prev, result) ==
  LET newTranscription == [text |-> trim(result.text),
                           timestamp |-> result.timestamp]
      exists == \E i \in 1..Len(prev) :
                  /\ prev[i].text = newTranscription.text
                  /\ withinWindow(prev[i].timestamp - newTranscription.timestamp)
  IN  IF exists THEN prev ELSE Append(prev, newTranscription)

\* speechResults.forEach of the effect: every final result goes through the
\* updater, in the order of the list
RECURSIVE forEachResult(_, _)
forEachResult(rs, prev) ==
  IF rs = <<>> THEN prev
  ELSE forEachResult(Tail(rs),
                     IF Head(rs).isFinal THEN addTranscription(prev, Head(rs))
                                         ELSE prev)

\* the effect on [speechResults, performAIAnalysis] runs
SpeechResultsEffect ==
  /\ transcriptions' = forEachResult(results, transcriptions)
  /\ lastSpeech' = Sp("effect", 0, "none")
  /\ UNCHANGED <<isSupported, isListening, speechError, results, now,
                 currentLanguage, initClosure, recognitionRef, recognitions,
                 listenTimers, restartTimers, listens, languageChanges>>
  /\ UNCHANGED <<chanVars, capVars>>

\* recognition.onresult with any of the events
TranscriptResult ==
  \E r \in 1..Len(recognitions), evResults \in EventResults, dt \in Gaps :
    onresult(r, evResults, dt, MaxUtterances)

\* the first capture begins
FirstListen == listens = 0 /\ HandleStartCapture

TranscriptNext ==
  \/ FirstListen
  \/ ListenTimer
  \/ \E r \in 1..Len(recognitions) : RecognitionOnStart(r)
  \/ TranscriptResult
  \/ SpeechResultsEffect

----------------------------------------------------------------------------
\* CaptureController, RecorderNegotiator, AudioChunkAggregator

\* the candidate list of the negotiation, in order of preference
configs == <<"", "audio/webm", "audio/mp4", "audio/ogg", "audio/webm;codecs=opus">>

NumConfigs == Len(configs)

\* sizes of the fragments an encoder hands over, in bytes
FragSizes == {0, 1000}

\* what the browser can do with a candidate: report it unsupported, throw from
\* the constructor or from start(), fire onerror, fire nothing within the 1 s
\* timeout, or fire onstart
SyncFailures == {"unsupported", "ctorThrows", "startThrows"}

AsyncFailures == {"error", "timeout"}

\* the browsers of the model, each a row of outcomes for the candidates of
\* configs
Profiles ==
  { <<"starts", "starts", "starts", "starts", "starts">>,
    <<"startThrows", "unsupported", "timeout", "starts", "starts">>,
    <<"ctorThrows", "unsupported", "unsupported", "unsupported", "unsupported">>,
    <<"error", "unsupported", "ctorThrows", "startThrows", "timeout">> }

\* what getUserMedia rejects with
AcquireErrors == {"NotAllowedError", "NotFoundError", "OverconstrainedError",
                  "OtherError"}

\* what creating and starting the live recorder does: both succeed; start()
\* throws; the constructor throws NotSupportedError; the constructor throws
\* another error whose message names MediaRecorder
LiveOutcomes == {"ok", "startThrows", "ctorNotSupported", "ctorMediaRecorder"}

errorTextNone(name) == "null"

\* the catch block's setError for an error by name
errorText(name) ==
  CASE name = "NotAllowedError" -> "PermissionDenied"
    [] name = "NotFoundError" -> "NoDeviceFound"
    [] name = "OverconstrainedError" -> "ConstraintsNotSupported"
    [] name = "NotSupportedError" -> "MediaRecorderNotSupported"
    [] OTHER -> "ErrorAccessingMediaDevices"

NewSession ==
  [pc |-> "acquire", cand |-> 0, stream |-> 0, workingConfig |-> 0,
   recorder |-> 0, audioChunks |-> <<>>, sinceFlush |-> <<>>,
   outcome |-> "pending", onStart |-> listenClosure]

Op(o, k, n) == [op |-> o, k |-> k, n |-> n]

InitCapture ==
  /\ profile \in Profiles
  /\ audioCtxSupported = (profile[NumConfigs] /= "unsupported")
  /\ streamRef = 0
  /\ streams = <<>>
  /\ mediaRecorderRef = 0
  /\ recorders = <<>>
  /\ trials = {}
  /\ frameIntervalRef = 0
  /\ frameTimers = {}
  /\ audioChunkTimerRef = 0
  /\ chunkTimers = {}
  /\ animationRef = FALSE
  /\ audioContextRef = 0
  /\ contexts = <<>>
  /\ analyserRef = FALSE
  /\ isStreaming = FALSE
  /\ captureError = "null"
  /\ permissionStatus = "pending"
  /\ isCapturing = FALSE
  /\ sessions = <<>>
  /\ fragCount = 0
  /\ dispatched = <<>>
  /\ lastOp = Op("none", 0, 0)

RECURSIVE combinedSize(_)
\* new Blob(audioChunks).size: the sum of the fragments' sizes
combinedSize(buf) ==
  IF buf = <<>> THEN 0 ELSE Head(buf).size + combinedSize(Tail(buf))

passesThresholdInclusive(size) == size >= 1000

\* sendCollectedAudio's test of the combined size
passesThreshold(size) == size > 1000

pushFront(buf, f) == <<f>> \o buf

\* audioChunks.push(event.data)
push(buf, f) == Append(buf, f)

\* ondataavailable for a fragment f
collect(buf, f) == IF f.size > 0 THEN push(buf, f) ELSE buf

flushedKeepsSmall(buf) ==
  IF passesThreshold(combinedSize(buf)) THEN <<>> ELSE buf

flushedKeepsLast(buf) == IF buf = <<>> THEN buf ELSE <<buf[Len(buf)]>>

\* audioChunks = [] of sendCollectedAudio: the buffer after a flush
flushed(buf) == <<>>

\* sendCollectedAudio of session k with buffer buf: what it hands to
\* onAudioData, <<>> if nothing.  window is every fragment the encoder of k
\* handed over since the previous flush.
sendCollectedAudio(k, buf, window) ==
  IF buf /= <<>> /\ passesThreshold(combinedSize(buf))
    THEN <<[session |-> k, frags |-> buf, size |-> combinedSize(buf),
            window |-> window]>>
    ELSE <<>>

\* setupAudioVisualization(stream) and drawAudioVisualization()
setupAudioVisualization ==
  IF audioCtxSupported
    THEN /\ IF audioContextRef = 0
              THEN /\ contexts' = Append(contexts, "running")
                   /\ audioContextRef' = Len(contexts) + 1
              ELSE UNCHANGED <<contexts, audioContextRef>>
         /\ analyserRef' = TRUE
         /\ animationRef' = TRUE
    ELSE UNCHANGED <<contexts, audioContextRef, analyserRef, animationRef>>

\* the tail of startMediaCapture: setupAudioVisualization, startFrameCapture,
\* setIsStreaming(true), onStartCapture()
finishStart(k) ==
  /\ setupAudioVisualization
  /\ frameIntervalRef' = k
  /\ frameTimers' = frameTimers \cup {k}
  /\ isStreaming' = TRUE
  /\ handleStartCapture(sessions[k].onStart)
  /\ UNCHANGED speechRest

\* what the steps of startMediaCapture after the acquisition may change
startVars == <<mediaRecorderRef, recorders, frameIntervalRef, frameTimers,
               animationRef, audioContextRef, contexts, analyserRef,
               isStreaming, captureError, isCapturing>>

refAfterStartThrewKept(ref) == ref

\* mediaRecorderRef.current after mediaRecorder.start() threw
refAfterStartThrew(ref) == 0

\* startMediaCapture from the end of the probing loop on, with wc the working
\* configuration (0: none), live what the live recorder does and perm the
\* permission status the step has reached
completeStart(k, sess, wc, live, perm) ==
  CASE wc = 0 ->
         /\ finishStart(k)
         /\ sessions' = [sessions EXCEPT ![k] =
              [sess EXCEPT !.pc = "done", !.cand = 0, !.outcome = "audioless"]]
         /\ permissionStatus' = perm
         /\ UNCHANGED <<mediaRecorderRef, recorders, captureError>>
    [] wc /= 0 /\ live = "ok" ->
         /\ recorders' = Append(recorders,
              [session |-> k, cfg |-> wc, state |-> "recording",
               startPending |-> TRUE, stopPending |-> FALSE])
         /\ mediaRecorderRef' = Len(recorders) + 1
         /\ finishStart(k)
         /\ sessions' = [sessions EXCEPT ![k] =
              [sess EXCEPT !.pc = "done", !.cand = 0, !.workingConfig = wc,
                           !.recorder = Len(recorders) + 1,
                           !.outcome = "audio"]]
         /\ permissionStatus' = perm
         /\ UNCHANGED captureError
    [] wc /= 0 /\ live = "startThrows" ->
         /\ recorders' = Append(recorders,
              [session |-> k, cfg |-> wc, state |-> "inactive",
               startPending |-> FALSE, stopPending |-> FALSE])
         /\ mediaRecorderRef' = refAfterStartThrew(Len(recorders) + 1)
         /\ finishStart(k)
         /\ sessions' = [sessions EXCEPT ![k] =
              [sess EXCEPT !.pc = "done", !.cand = 0, !.workingConfig = wc,
                           !.recorder = Len(recorders) + 1,
                           !.outcome = "audioless"]]
         /\ permissionStatus' = perm
         /\ UNCHANGED captureError
    [] wc /= 0 /\ live = "ctorNotSupported" ->
         /\ captureError' = errorText("NotSupportedError")
         /\ permissionStatus' = "denied"
         /\ sessions' = [sessions EXCEPT ![k] =
              [sess EXCEPT !.pc = "failed", !.cand = 0, !.workingConfig = wc,
                           !.outcome = "failed"]]
         /\ UNCHANGED <<mediaRecorderRef, recorders, frameIntervalRef,
                        frameTimers, animationRef, audioContextRef, contexts,
                        analyserRef, isStreaming, isCapturing>>
         /\ UNCHANGED speechVars
    [] wc /= 0 /\ live = "ctorMediaRecorder" ->
         /\ captureError' = "AudioRecordingFailed"
         /\ sessions' = [sessions EXCEPT ![k] =
              [sess EXCEPT !.pc = "recover", !.cand = 0,
                           !.workingConfig = wc]]
         /\ UNCHANGED <<mediaRecorderRef, recorders, frameIntervalRef,
                        frameTimers, animationRef, audioContextRef, contexts,
                        analyserRef, isStreaming, isCapturing>>
         /\ UNCHANGED speechVars
         /\ permissionStatus' = perm

nextAwaitedSkipsOne(from) ==
  LET W == { j \in (from + 1)..NumConfigs : profile[j] \notin SyncFailures }
  IN IF W = {} THEN NumConfigs + 1 ELSE CHOOSE j \in W : \A i \in W : j <= i

\* the probing loop resumed at candidate from: the first candidate from there
\* on that is supported, constructs and starts without throwing, and whose
\* trial is therefore awaited; NumConfigs + 1 when the loop runs out
nextAwaited(from) ==
  LET W == { j \in from..NumConfigs : profile[j] \notin SyncFailures }
  IN IF W = {} THEN NumConfigs + 1 ELSE CHOOSE j \in W : \A i \in W : j <= i

\* the probing loop of session k resumed at candidate from: it either awaits
\* the trial of the next candidate that gets that far or leaves the list
\* without a working configuration
continueProbing(k, sess, from, perm) ==
  LET j == nextAwaited(from)
  IN IF j <= NumConfigs
       THEN /\ sessions' = [sessions EXCEPT ![k] =
                 [sess EXCEPT !.pc = "probe", !.cand = j]]
            /\ permissionStatus' = perm
            /\ UNCHANGED startVars
            /\ UNCHANGED speechVars
       ELSE completeStart(k, sess, 0, "ok", perm)

\* onClick of the start button, shown while isStreaming is false and enabled
\* unless the permission is denied: setError(null), getUserMedia requested.
\* limit bounds the calls of one behaviour.
startMediaCapture(limit) ==
  /\ ~isStreaming
  /\ permissionStatus /= "denied"
  /\ Len(sessions) < limit
  /\ sessions' = Append(sessions, NewSession)
  /\ captureError' = "null"
  /\ lastOp' = Op("event", 0, 0)
  /\ UNCHANGED <<audioCtxSupported, profile, streamRef, streams, mediaRecorderRef,
                 recorders, trials, frameIntervalRef, frameTimers,
                 audioChunkTimerRef, chunkTimers, animationRef,
                 audioContextRef, contexts, analyserRef, isStreaming,
                 permissionStatus, isCapturing, fragCount>>
  /\ dispatched' = <<>>
  /\ UNCHANGED <<chanVars, speechVars>>

StartCall == startMediaCapture(MaxSessions)

\* one more click on the start button, after the calls StartCall allows
StartAgain ==
  /\ Len(sessions) >= MaxSessions
  /\ startMediaCapture(MaxSessions + 1)

\* getUserMedia rejects: the catch block
AcquireRejected(k, name) ==
  /\ k \in 1..Len(sessions)
  /\ sessions[k].pc = "acquire"
  /\ captureError' = errorText(name)
  /\ permissionStatus' = "denied"
  /\ sessions' = [sessions EXCEPT ![k].pc = "failed", ![k].outcome = "failed"]
  /\ lastOp' = Op("event", 0, 0)
  /\ UNCHANGED <<audioCtxSupported, profile, streamRef, streams, mediaRecorderRef,
                 recorders, trials, frameIntervalRef, frameTimers,
                 audioChunkTimerRef, chunkTimers, animationRef,
                 audioContextRef, contexts, analyserRef, isStreaming,
                 isCapturing, fragCount>>
  /\ dispatched' = <<>>
  /\ UNCHANGED <<chanVars, speechVars>>

\* getUserMedia resolves: the stream is stored and the probing loop begins
AcquireGranted(k) ==
  /\ k \in 1..Len(sessions)
  /\ sessions[k].pc = "acquire"
  /\ streams' = Append(streams, [live |-> TRUE, session |-> k])
  /\ streamRef' = Len(streams) + 1
  /\ continueProbing(k, [sessions[k] EXCEPT !.stream = Len(streams) + 1],
                     1, "granted")
  /\ lastOp' = IF nextAwaited(1) <= NumConfigs THEN Op("event", 0, 0)
                ELSE Op("complete", k, 0)
  /\ UNCHANGED <<audioCtxSupported, profile, trials, audioChunkTimerRef, chunkTimers, fragCount>>
  /\ dispatched' = <<>>
  /\ UNCHANGED chanVars


\* the awaited trial of session k fires onstart: the trial is stopped, its
\* configuration is the working one, the loop breaks and the live recorder is
\* created and started
TrialStarted(k, live) ==
  /\ k \in 1..Len(sessions)
  /\ sessions[k].pc = "probe"
  /\ profile[sessions[k].cand] = "starts"
  /\ live \in LiveOutcomes
  /\ completeStart(k, sessions[k], sessions[k].cand, live, permissionStatus)
  /\ lastOp' = IF live \in {"ok", "startThrows"} THEN Op("complete", k, 0)
                ELSE Op("event", 0, 0)
  /\ UNCHANGED <<audioCtxSupported, profile, streamRef, streams, trials,
                 audioChunkTimerRef, chunkTimers, fragCount>>
  /\ dispatched' = <<>>
  /\ UNCHANGED chanVars

\* the awaited trial of session k fires onerror, or its 1 s timeout fires
\* first: the promise rejects and the loop goes on with the next candidate.
\* A trial that timed out was started and is left recording.
TrialFailed(k) ==
  /\ k \in 1..Len(sessions)
  /\ sessions[k].pc = "probe"
  /\ profile[sessions[k].cand] \in AsyncFailures
  /\ trials' = IF profile[sessions[k].cand] = "timeout"
                 THEN trials \cup {[session |-> k, cfg |-> sessions[k].cand]}
                 ELSE trials
  /\ continueProbing(k, sessions[k], sessions[k].cand + 1, permissionStatus)
  /\ lastOp' = IF nextAwaited(sessions[k].cand + 1) <= NumConfigs
                  THEN Op("event", 0, 0) ELSE Op("complete", k, 0)
  /\ UNCHANGED <<audioCtxSupported, profile, streamRef, streams,
                 audioChunkTimerRef, chunkTimers, fragCount>>
  /\ dispatched' = <<>>
  /\ UNCHANGED chanVars

\* a trial whose probe timed out fires onstart after all: testRecorder.stop()
LateTrialStart(t) ==
  /\ t \in trials
  /\ trials' = trials \ {t}
  /\ lastOp' = Op("event", 0, 0)
  /\ UNCHANGED <<audioCtxSupported, profile, streamRef, streams, mediaRecorderRef,
                 recorders, frameIntervalRef, frameTimers, audioChunkTimerRef,
                 chunkTimers, animationRef, audioContextRef, contexts,
                 analyserRef, isStreaming, captureError, permissionStatus,
                 isCapturing, sessions, fragCount>>
  /\ dispatched' = <<>>
  /\ UNCHANGED <<chanVars, speechVars>>

\* the second getUserMedia, of the catch block's recovery, resolves
RecoverGranted(k) ==
  /\ k \in 1..Len(sessions)
  /\ sessions[k].pc = "recover"
  /\ streams' = Append(streams, [live |-> TRUE, session |-> k])
  /\ streamRef' = Len(streams) + 1
  /\ permissionStatus' = "granted"
  /\ finishStart(k)
  /\ sessions' = [sessions EXCEPT ![k].pc = "done",
                                  ![k].stream = Len(streams) + 1,
                                  ![k].outcome = "recovered"]
  /\ lastOp' = Op("event", 0, 0)
  /\ UNCHANGED <<audioCtxSupported, profile, mediaRecorderRef, recorders, trials,
                 audioChunkTimerRef, chunkTimers, captureError, fragCount>>
  /\ dispatched' = <<>>
  /\ UNCHANGED chanVars

\* the second getUserMedia rejects
RecoverRejected(k) ==
  /\ k \in 1..Len(sessions)
  /\ sessions[k].pc = "recover"
  /\ permissionStatus' = "denied"
  /\ sessions' = [sessions EXCEPT ![k].pc = "failed", ![k].outcome = "failed"]
  /\ lastOp' = Op("event", 0, 0)
  /\ UNCHANGED <<audioCtxSupported, profile, streamRef, streams, mediaRecorderRef,
                 recorders, trials, frameIntervalRef, frameTimers,
                 audioChunkTimerRef, chunkTimers, animationRef,
                 audioContextRef, contexts, analyserRef, isStreaming,
                 captureError, isCapturing, fragCount>>
  /\ dispatched' = <<>>
  /\ UNCHANGED <<chanVars, speechVars>>

\* mediaRecorder.onstart: the 5 s flush interval is set
RecorderStart(r) ==
  /\ r \in 1..Len(recorders)
  /\ recorders[r].startPending
  /\ recorders' = [recorders EXCEPT ![r].startPending = FALSE]
  /\ audioChunkTimerRef' = r
  /\ chunkTimers' = chunkTimers \cup {r}
  /\ lastOp' = Op("event", 0, 0)
  /\ UNCHANGED <<audioCtxSupported, profile, streamRef, streams, mediaRecorderRef,
                 trials, frameIntervalRef, frameTimers, animationRef,
                 audioContextRef, contexts, analyserRef, isStreaming,
                 captureError, permissionStatus, isCapturing, sessions, fragCount>>
  /\ dispatched' = <<>>
  /\ UNCHANGED <<chanVars, speechVars>>

\* mediaRecorder.ondataavailable while recording
ondataavailable(r, size, limit) ==
  /\ r \in 1..Len(recorders)
  /\ recorders[r].state = "recording"
  /\ ~recorders[r].startPending
  /\ fragCount < limit
  /\ LET k == recorders[r].session
         f == [id |-> fragCount + 1, size |-> size]
     IN /\ fragCount' = fragCount + 1
        /\ sessions' = [sessions EXCEPT
                          ![k].audioChunks = collect(@, f),
                          ![k].sinceFlush = Append(@, f)]
  /\ dispatched' = <<>>
  /\ lastOp' = Op("event", 0, 0)
  /\ UNCHANGED <<audioCtxSupported, profile, streamRef, streams, mediaRecorderRef,
                 recorders, trials, frameIntervalRef, frameTimers,
                 audioChunkTimerRef, chunkTimers, animationRef,
                 audioContextRef, contexts, analyserRef, isStreaming,
                 captureError, permissionStatus, isCapturing>>
  /\ UNCHANGED <<chanVars, speechVars>>

\* the flush interval set by recorder t ticks: sendCollectedAudio of t's
\* session if the recorder mediaRecorderRef holds is recording
ChunkTimerTick(t) ==
  /\ t \in chunkTimers
  /\ LET k == recorders[t].session
         runs == /\ mediaRecorderRef /= 0
                 /\ recorders[mediaRecorderRef].state = "recording"
     IN /\ dispatched' = IF runs
                           THEN sendCollectedAudio(k, sessions[k].audioChunks,
                                                   sessions[k].sinceFlush)
                           ELSE <<>>
        /\ sessions' = IF runs
                         THEN [sessions EXCEPT ![k].audioChunks = flushed(@),
                                               ![k].sinceFlush = <<>>]
                         ELSE sessions
        /\ lastOp' = IF runs
                       THEN Op("flush", k, combinedSize(sessions[k].audioChunks))
                       ELSE Op("event", 0, 0)
  /\ UNCHANGED <<audioCtxSupported, profile, streamRef, streams, mediaRecorderRef,
                 recorders, trials, frameIntervalRef, frameTimers,
                 audioChunkTimerRef, chunkTimers, animationRef,
                 audioContextRef, contexts, analyserRef, isStreaming,
                 captureError, permissionStatus, isCapturing, fragCount>>
  /\ UNCHANGED <<chanVars, speechVars>>

\* a stopped recorder delivers its last fragment and fires onstop: the flush
\* interval audioChunkTimerRef holds is cleared and the buffer is flushed
RecorderStopped(r, size) ==
  /\ r \in 1..Len(recorders)
  /\ recorders[r].stopPending
  /\ ~recorders[r].startPending
  /\ LET k == recorders[r].session
         f == [id |-> fragCount + 1, size |-> size]
     IN /\ fragCount' = fragCount + 1
        /\ dispatched' = sendCollectedAudio(k, collect(sessions[k].audioChunks, f),
                                            Append(sessions[k].sinceFlush, f))
        /\ sessions' = [sessions EXCEPT
                          ![k].audioChunks = flushed(collect(@, f)),
                          ![k].sinceFlush = <<>>]
        /\ lastOp' = Op("flush", k,
                        combinedSize(collect(sessions[k].audioChunks, f)))
  /\ recorders' = [recorders EXCEPT ![r].stopPending = FALSE]
  /\ chunkTimers' = chunkTimers \ {audioChunkTimerRef}
  /\ audioChunkTimerRef' = 0
  /\ UNCHANGED <<audioCtxSupported, profile, streamRef, streams, mediaRecorderRef,
                 trials, frameIntervalRef, frameTimers, animationRef,
                 audioContextRef, contexts, analyserRef, isStreaming,
                 captureError, permissionStatus, isCapturing>>
  /\ UNCHANGED <<chanVars, speechVars>>

\* mediaRecorder.onerror of a recording recorder r: the browser stops r, and
\* the handler stops the recorder mediaRecorderRef holds if it is not inactive
RecorderError(r) ==
  /\ r \in 1..Len(recorders)
  /\ recorders[r].state = "recording"
  /\ LET stopped == [recorders EXCEPT ![r].state = "inactive",
                                      ![r].stopPending = TRUE]
     IN recorders' =
          IF mediaRecorderRef /= 0
             /\ stopped[mediaRecorderRef].state /= "inactive"
            THEN [stopped EXCEPT ![mediaRecorderRef].state = "inactive",
                                 ![mediaRecorderRef].stopPending = TRUE]
            ELSE stopped
  /\ lastOp' = Op("event", 0, 0)
  /\ UNCHANGED <<audioCtxSupported, profile, streamRef, streams, mediaRecorderRef,
                 trials, frameIntervalRef, frameTimers, audioChunkTimerRef,
                 chunkTimers, animationRef, audioContextRef, contexts,
                 analyserRef, isStreaming, captureError, permissionStatus,
                 isCapturing, sessions, fragCount>>
  /\ dispatched' = <<>>
  /\ UNCHANGED <<chanVars, speechVars>>

\* where a call of startMediaCapture stands while it awaits getUserMedia, a
\* trial or the recovery's getUserMedia
pendingPcs == {"acquire", "probe", "recover"}

streamingAfterStopToggle(cur) == ~cur

\* setIsStreaming(false) of stopMediaCapture
streamingAfterStop(cur) == FALSE

\* stopMediaCapture: the stop button, and the cleanup of the component's effect
StopMediaCapture ==
  /\ IF streamRef /= 0
       THEN /\ streams' = [streams EXCEPT ![streamRef].live = FALSE]
            /\ streamRef' = 0
       ELSE UNCHANGED <<streams, streamRef>>
  /\ IF mediaRecorderRef /= 0 /\ recorders[mediaRecorderRef].state /= "inactive"
       THEN /\ recorders' = [recorders EXCEPT
                               ![mediaRecorderRef].state = "inactive",
                               ![mediaRecorderRef].stopPending = TRUE]
            /\ mediaRecorderRef' = 0
       ELSE UNCHANGED <<recorders, mediaRecorderRef>>
  /\ frameTimers' = frameTimers \ {frameIntervalRef}
  /\ frameIntervalRef' = 0
  /\ chunkTimers' = chunkTimers \ {audioChunkTimerRef}
  /\ audioChunkTimerRef' = 0
  /\ animationRef' = FALSE
  /\ IF audioContextRef /= 0
       THEN /\ contexts' = [contexts EXCEPT ![audioContextRef] = "closed"]
            /\ audioContextRef' = 0
            /\ analyserRef' = FALSE
       ELSE UNCHANGED <<contexts, audioContextRef, analyserRef>>
  /\ isStreaming' = streamingAfterStop(isStreaming)
  /\ handleStopCapture
  /\ UNCHANGED speechRest
  /\ lastOp' = Op("stop", 0, IF lastOp.op = "stop" THEN 2 ELSE 1)
  /\ UNCHANGED <<audioCtxSupported, profile, trials, captureError, permissionStatus,
                 sessions, fragCount>>
  /\ dispatched' = <<>>
  /\ UNCHANGED chanVars

DataAvailable(r, size) == ondataavailable(r, size, MaxFragments)

CaptureNext ==
  \/ StartCall
  \/ \E k \in 1..Len(sessions), name \in AcquireErrors : AcquireRejected(k, name)
  \/ \E k \in 1..Len(sessions) : AcquireGranted(k)
  \/ \E k \in 1..Len(sessions), live \in LiveOutcomes : TrialStarted(k, live)
  \/ \E k \in 1..Len(sessions) : TrialFailed(k)
  \/ \E t \in trials : LateTrialStart(t)
  \/ \E k \in 1..Len(sessions) : RecoverGranted(k)
  \/ \E k \in 1..Len(sessions) : RecoverRejected(k)
  \/ \E r \in 1..Len(recorders) : RecorderStart(r)
  \/ \E r \in 1..Len(recorders), size \in FragSizes : DataAvailable(r, size)
  \/ \E t \in chunkTimers : ChunkTimerTick(t)
  \/ \E r \in 1..Len(recorders), size \in FragSizes : RecorderStopped(r, size)
  \/ \E r \in 1..Len(recorders) : RecorderError(r)
  \/ StopMediaCapture

----------------------------------------------------------------------------
\* The system and its two components

Init == InitChannel /\ InitCapture /\ InitSpeech

Next == ChannelNext \/ CaptureNext \/ SpeechEvents

Spec == Init /\ [][Next]_vars

\* the channel alone, beside a capture that is never started
InitChannelOnly ==
  InitChannel /\ InitCapture /\ InitSpeech /\ profile[1] = "starts"
              /\ isSupported

SpecChannel == InitChannelOnly /\ [][ChannelNext]_vars

\* the capture alone, beside a channel that is never mounted and a
\* recognition engine that is never heard of
InitCaptureOnly ==
  InitChannel /\ InitCapture /\ InitSpeech
              /\ url = WssScheme \o Localhost4000 /\ pageProtocol = "http:"
              /\ isSupported

SpecCapture == InitCaptureOnly /\ [][CaptureNext]_vars

\* the transcription alone, the page's handlers called as a capture may
InitSpeechOnly ==
  InitChannel /\ InitCapture /\ InitSpeech
              /\ url = WssScheme \o Localhost4000 /\ pageProtocol = "http:"
              /\ profile[1] = "starts"

SpecSpeech == InitSpeechOnly /\ [][SpeechNext]_vars

\* the results of a supported recognition and the page's transcript
InitTranscript == InitSpeechOnly /\ isSupported

SpecTranscript == InitTranscript /\ [][TranscriptNext]_vars

\* the capture with one more click on the start button
OverlapNext == CaptureNext \/ StartAgain

SpecOverlap == InitCaptureOnly /\ [][OverlapNext]_vars

\* the aggregator alone, on a browser whose first candidate starts, with an
\* encoder that hands over fragments of 600 bytes
AggSizes == {600}

AggFragments == MaxFragments + 2

AggregatorData(r, size) == ondataavailable(r, size, AggFragments)

InitAggregator ==
  InitCaptureOnly /\ profile = <<"starts", "starts", "starts", "starts", "starts">>

AggregatorNext ==
  \/ StartCall
  \/ \E k \in 1..Len(sessions) : AcquireGranted(k)
  \/ \E k \in 1..Len(sessions) : TrialStarted(k, "ok")
  \/ \E r \in 1..Len(recorders) : RecorderStart(r)
  \/ \E r \in 1..Len(recorders), size \in AggSizes : AggregatorData(r, size)
  \/ \E t \in chunkTimers : ChunkTimerTick(t)
  \/ \E r \in 1..Len(recorders), size \in AggSizes \cup {0, 200} :
        RecorderStopped(r, size)
  \/ StopMediaCapture

SpecAggregator == InitAggregator /\ [][AggregatorNext]_vars

\* the capture with the encoder as mediaRecorder.start() without a timeslice
\* runs it: the encoder gathers what it encodes into one blob and fires
\* dataavailable once, when it is stopped; requestData is never called
EncoderNext ==
  \/ StartCall
  \/ \E k \in 1..Len(sessions), name \in AcquireErrors : AcquireRejected(k, name)
  \/ \E k \in 1..Len(sessions) : AcquireGranted(k)
  \/ \E k \in 1..Len(sessions), live \in LiveOutcomes : TrialStarted(k, live)
  \/ \E k \in 1..Len(sessions) : TrialFailed(k)
  \/ \E t \in trials : LateTrialStart(t)
  \/ \E k \in 1..Len(sessions) : RecoverGranted(k)
  \/ \E k \in 1..Len(sessions) : RecoverRejected(k)
  \/ \E r \in 1..Len(recorders) : RecorderStart(r)
  \/ \E t \in chunkTimers : ChunkTimerTick(t)
  \/ \E r \in 1..Len(recorders), size \in FragSizes \cup {2000} :
        RecorderStopped(r, size)
  \/ \E r \in 1..Len(recorders) : RecorderError(r)
  \/ StopMediaCapture

SpecEncoder == InitCaptureOnly /\ [][EncoderNext]_vars

\* the channel with one change of the url: React runs the cleanup and then
\* the effect body again in the same commit, with a new closure (retryCount,
\* reconnectTimeout) and the same wsRef and state.  The sockets the old
\* closure left behind keep its handlers; they are marked stale.  The url
\* changes when the old closure has nothing pending but sockets and has not
\* used up its retries.
UrlChange ==
  /\ effect = "mounted"
  /\ sockets /= <<>>
  /\ \A s \in 1..Len(sockets) : ~sockets[s].stale
  /\ dialPending = <<>> /\ timers = {}
  /\ retryCount < maxRetries
  /\ url' \in Urls \ {url}
  /\ retryCount' = 0
  /\ sockets' = [s \in 1..Len(sockets) |->
                  [sockets[s] EXCEPT
                     !.stale = TRUE,
                     !.readyState = IF s = wsRef /\ @ = "OPEN"
                                      THEN "CLOSING" ELSE @]]
  /\ dialPending' = Append(dialPending, finalUrl(url'))
  /\ error' = IF needsDowngrade(url') THEN "InsecureWebSocket" ELSE error
  /\ downgradeReports' =
       IF needsDowngrade(url') THEN downgradeReports + 1 ELSE downgradeReports
  /\ connectCalls' = connectCalls + 1
  /\ lastEvent' = Ev("mount", 0, retryCount')
  /\ UNCHANGED <<messages, readers>>
  /\ UNCHANGED <<capVars, speechVars>>
  /\ UNCHANGED <<pageProtocol, effect, wsRef, isConnected, reconnectTimeout,
                 timers, sent, opens, attempts>>

\* ws.onopen of a socket of the old closure: as OnOpen, but the counter it
\* resets is the old closure's
StaleOnOpen(s) ==
  /\ s \in 1..Len(sockets)
  /\ sockets[s].stale
  /\ sockets[s].readyState = "CONNECTING"
  /\ opens < MaxOpens
  /\ sockets' = [sockets EXCEPT ![s].readyState = "OPEN",
                                ![s].watchdog = clearTimeout(@)]
  /\ isConnected' = TRUE
  /\ error' = "null"
  /\ sent' = Append(sent, [sock |-> s, type |-> "ping"])
  /\ opens' = opens + 1
  /\ lastEvent' = Ev("open", 0, retryCount)
  /\ UNCHANGED <<messages, readers>>
  /\ UNCHANGED <<capVars, speechVars>>
  /\ UNCHANGED <<url, pageProtocol, effect, wsRef, retryCount, reconnectTimeout,
                 timers, dialPending, attempts, connectCalls, downgradeReports>>

\* ws.onclose of a socket of the old closure, for the codes that make
\* shouldReconnect false whatever the old closure's counter, which is below
\* the ceiling
StaleOnClose(s, code) ==
  /\ s \in 1..Len(sockets)
  /\ sockets[s].stale
  /\ sockets[s].readyState /= "CLOSED"
  /\ code \in {1000, 1001, 1005}
  /\ sockets' = [sockets EXCEPT ![s].readyState = "CLOSED",
                                ![s].watchdog = clearTimeout(@)]
  /\ isConnected' = FALSE
  /\ lastEvent' = Ev("close", code, retryCount)
  /\ UNCHANGED <<messages, readers>>
  /\ UNCHANGED <<capVars, speechVars>>
  /\ UNCHANGED <<url, pageProtocol, effect, wsRef, error, retryCount,
                 reconnectTimeout, timers, dialPending, sent, opens, attempts,
                 connectCalls, downgradeReports>>

RerunNext ==
  \/ EffectMount
  \/ \E throws \in BOOLEAN : Dial(throws)
  \/ \E s \in 1..Len(sockets) : ConnectionTimeout(s)
  \/ \E s \in 1..Len(sockets) : ~sockets[s].stale /\ OnOpen(s)
  \/ \E s \in 1..Len(sockets), code \in CloseCodes :
        ~sockets[s].stale /\ OnClose(s, code)
  \/ \E s \in 1..Len(sockets) : OnError(s)
  \/ \E t \in timers : ReconnectTimer(t)
  \/ EffectCleanup
  \/ UrlChange
  \/ \E s \in 1..Len(sockets) : StaleOnOpen(s)
  \/ \E s \in 1..Len(sockets), code \in CloseCodes : StaleOnClose(s, code)

InitRerun ==
  InitChannelOnly /\ url = WsScheme \o Localhost4000 /\ pageProtocol = "https:"

SpecRerun == InitRerun /\ [][RerunNext]_vars

\* the channel with the page's outbound calls, for a server that accepts a
\* connection twice

\* the calls of sendAudioData and sendVideoFrame of one run
OutboundSends == 2

OutboundOpens == MaxOpens + 1

\* sendMessage(message): written to wsRef.current if that socket is open,
\* otherwise only a warning
sendMessage(type) ==
  sent' = IF wsRef /= 0 /\ sockets[wsRef].readyState = "OPEN"
            THEN Append(sent, [sock |-> wsRef, type |-> type])
            ELSE sent

\* sendAudioData(audioBlob): with an open socket a FileReader is started,
\* otherwise the blob is dropped
SendAudioData ==
  /\ effect = "mounted"
  /\ Len(sent) + Len(readers) < OutboundSends + opens
  /\ readers' = IF wsRef /= 0 /\ sockets[wsRef].readyState = "OPEN"
                   THEN Append(readers, [sock |-> wsRef])
                   ELSE readers
  /\ lastEvent' = Ev("sendAudioData", 0, wsRef)
  /\ UNCHANGED <<capVars, speechVars>>
  /\ UNCHANGED <<url, pageProtocol, effect, wsRef, sockets, isConnected, error,
                 retryCount, reconnectTimeout, timers, dialPending, sent,
                 messages, opens, attempts, connectCalls, downgradeReports>>

\* reader.onload of the i-th pending FileReader: sendMessage(audioMessage)
ReaderOnLoad(i) ==
  /\ i \in 1..Len(readers)
  /\ readers' = SubSeq(readers, 1, i - 1) \o SubSeq(readers, i + 1, Len(readers))
  /\ sendMessage("audio")
  /\ lastEvent' = Ev("reader", 0, readers[i].sock)
  /\ UNCHANGED <<capVars, speechVars>>
  /\ UNCHANGED <<url, pageProtocol, effect, wsRef, sockets, isConnected, error,
                 retryCount, reconnectTimeout, timers, dialPending,
                 messages, opens, attempts, connectCalls, downgradeReports>>

\* sendVideoFrame(frameData)
SendVideoFrame ==
  /\ effect = "mounted"
  /\ Len(sent) + Len(readers) < OutboundSends + opens
  /\ sendMessage("video-frame")
  /\ lastEvent' = Ev("sendVideoFrame", 0, wsRef)
  /\ UNCHANGED <<capVars, speechVars>>
  /\ UNCHANGED <<url, pageProtocol, effect, wsRef, sockets, isConnected, error,
                 retryCount, reconnectTimeout, timers, dialPending, readers,
                 messages, opens, attempts, connectCalls, downgradeReports>>

OutboundOpen(s) == onopen(s, OutboundOpens)

OutboundNext ==
  \/ EffectMount
  \/ Dial(FALSE)
  \/ \E s \in 1..Len(sockets) : OutboundOpen(s)
  \/ \E s \in 1..Len(sockets), code \in CloseCodes : OnClose(s, code)
  \/ \E t \in timers : ReconnectTimer(t)
  \/ SendAudioData
  \/ \E i \in 1..Len(readers) : ReaderOnLoad(i)
  \/ SendVideoFrame

InitOutbound ==
  InitChannelOnly /\ url = WsScheme \o Localhost4000 /\ pageProtocol = "http:"

SpecOutbound == InitOutbound /\ [][OutboundNext]_vars

\* the capture's frame interval, with one more click on the start button

\* the frame interval set by call t ticks: captureFrame draws the video's
\* current picture and hands it to onVideoFrame, the page's handleVideoFrame,
\* which calls sendVideoFrame
FrameTick(t) ==
  /\ t \in frameTimers
  /\ lastOp' = Op("frame", t, 0)
  /\ sendMessage("video-frame")
  /\ lastEvent' = Ev("sendVideoFrame", 0, wsRef)
  /\ dispatched' = <<>>
  /\ UNCHANGED <<audioCtxSupported, profile, streamRef, streams, mediaRecorderRef,
                 recorders, trials, frameIntervalRef, frameTimers,
                 audioChunkTimerRef, chunkTimers, animationRef,
                 audioContextRef, contexts, analyserRef, isStreaming,
                 captureError, permissionStatus, isCapturing, sessions,
                 fragCount>>
  /\ UNCHANGED <<url, pageProtocol, effect, wsRef, sockets, isConnected, error,
                 retryCount, reconnectTimeout, timers, dialPending, readers,
                 messages, opens, attempts, connectCalls, downgradeReports>>
  /\ UNCHANGED speechVars

\* a click on the button while it shows Stop Capture
StopClick == isStreaming /\ StopMediaCapture

FramesNext ==
  \/ StartCall
  \/ StartAgain
  \/ \E k \in 1..Len(sessions), name \in AcquireErrors : AcquireRejected(k, name)
  \/ \E k \in 1..Len(sessions) : AcquireGranted(k)
  \/ \E k \in 1..Len(sessions) : TrialStarted(k, "ok")
  \/ \E t \in frameTimers : FrameTick(t)
  \/ StopClick

SpecFrames == InitAggregator /\ [][FramesNext]_vars

\* the channel with the page's effect on the messages it returns

\* the entry the effect's updater of setTranscriptions appends for the i-th
\* message; the server's message.timestamp is the message's place in the
\* order of arrival
fromMessage(i) == [text |-> <<"m">>, timestamp |-> i]

\* messages.forEach of the effect, from message i on: a transcription is
\* appended, an error is only logged
RECURSIVE forEachMessage(_, _, _)
forEachMessage(msgs, i, prev) ==
  IF i > Len(msgs) THEN prev
  ELSE forEachMessage(msgs, i + 1,
                      IF msgs[i].type = "transcription"
                        THEN Append(prev, fromMessage(i))
                        ELSE prev)

\* the effect on [messages] runs: after the render that follows an onmessage
\* which changed messages
MessagesEffect ==
  /\ lastEvent.type = "message"
  /\ received(<<>>, lastEvent.text) /= <<>>
  /\ transcriptions' = forEachMessage(messages, 1, transcriptions)
  /\ lastEvent' = Ev("effect", 0, Len(messages))
  /\ UNCHANGED <<isSupported, isListening, speechError, results, now,
                 currentLanguage, initClosure, recognitionRef, recognitions,
                 listenTimers, restartTimers, listens, languageChanges,
                 lastSpeech>>
  /\ UNCHANGED capVars
  /\ UNCHANGED <<url, pageProtocol, effect, wsRef, sockets, isConnected, error,
                 retryCount, reconnectTimeout, timers, dialPending, sent,
                 readers, messages, opens, attempts, connectCalls,
                 downgradeReports>>

InboundNext ==
  \/ EffectMount
  \/ Dial(FALSE)
  \/ \E s \in 1..Len(sockets) : OnOpen(s)
  \/ \E s \in 1..Len(sockets), text \in Payloads : OnMessage(s, text)
  \/ \E s \in 1..Len(sockets), code \in CloseCodes : OnClose(s, code)
  \/ MessagesEffect

InitInbound ==
  InitChannelOnly /\ url = WsScheme \o Localhost4000 /\ pageProtocol = "http:"

SpecInbound == InitInbound /\ [][InboundNext]_vars

----------------------------------------------------------------------------
\* Properties of the StreamChannel, checked under SpecChannel

AfterClose == lastEvent.type = "close"

\* a reconnect timer set by the close just handled is pending
ReconnectScheduled == \E t \in timers : t.id = reconnectTimeout

NothingPending == timers = {} /\ dialPending = <<>>

AllSocketsClosed == \A s \in 1..Len(sockets) : sockets[s].readyState = "CLOSED"

\* C1: right after a close event with code 1000 or 1001 has been handled, no
\* reconnect timer and no dial is pending and the retry counter is the one
\* the close found, whatever that counter is: the close schedules nothing
\* and no socket can follow from it.
C1_NormalCloseNeverReconnects ==
  (AfterClose /\ lastEvent.code \in {1000, 1001}) =>
     /\ NothingPending
     /\ AllSocketsClosed
     /\ retryCount = lastEvent.n

\* C1 witness: a close with code 1001 handled while the retry counter is 3
C1_Witness ==
  AfterClose /\ lastEvent.code = 1001 /\ lastEvent.n = 3 /\ NothingPending

\* C2 as stated: every close with a code other than 1000 and 1001 handled
\* while the retry counter is below 5 schedules a reconnection.
C2_Original ==
  (AfterClose /\ lastEvent.code \notin {1000, 1001} /\ lastEvent.n < 5) =>
     ReconnectScheduled

\* C2 amended: every close with a code other than 1000, 1001 and 1005 handled
\* while the retry counter is below 5 schedules a reconnection and counts it.
C2_AbnormalCloseSchedulesReconnect ==
  (AfterClose /\ lastEvent.code \notin {1000, 1001, 1005} /\ lastEvent.n < 5) =>
     /\ ReconnectScheduled
     /\ retryCount = lastEvent.n + 1

\* C2 witness: a 1006 close handled at retry count 4 has scheduled the fifth retry
C2_Witness ==
  /\ AfterClose /\ lastEvent.code = 1006 /\ lastEvent.n = 4
  /\ ReconnectScheduled /\ retryCount = 5

\* C3 as stated: the delay of the reconnection a close schedules is
\* min(1000*2^n, 10000) with n the retry count the close was handled at.
C3_Original ==
  AfterClose =>
    \A t \in timers :
       t.delay = (IF 1000 * 2^lastEvent.n <= 10000 THEN 1000 * 2^lastEvent.n
                                                   ELSE 10000)

\* C3 amended: the delay of the reconnection a close schedules is
\* min(1000*2^(n+1), 10000) with n the retry count the close was handled at
\* (the exponent is the count after its increment): 2000, 4000, 8000, 10000,
\* 10000 ms for n = 0..4; no pending reconnection has a delay above 10000 ms.
C3_BackoffDelay ==
  /\ \A t \in timers : t.delay <= 10000
  /\ AfterClose =>
       \A t \in timers :
          /\ lastEvent.n \in 0..4
          /\ t.delay = <<2000, 4000, 8000, 10000, 10000>>[lastEvent.n + 1]
          /\ t.delay = (IF 1000 * 2^(lastEvent.n + 1) <= 10000
                          THEN 1000 * 2^(lastEvent.n + 1) ELSE 10000)

\* C3 witness: the close handled at retry count 3 scheduled a capped delay
C3_Witness ==
  /\ AfterClose /\ lastEvent.n = 3
  /\ \E t \in timers : t.id = reconnectTimeout /\ t.delay = 10000

\* attempts made since the last open (or the start), with the ones on their way
AttemptsInFlight == attempts + Len(dialPending) + Cardinality(timers)

\* C4: at most 6 connection attempts are made since the last open or the
\* start; five consecutive reconnect-triggering closes with no open since the
\* start make the sixth attempt the last one; the close handled at retry
\* count 5 surfaces the terminal error and leaves nothing scheduled, and with
\* the terminal error surfaced and no open ever, exactly 6 sockets were dialed.
C4_SixAttemptsThenTerminal ==
  /\ attempts <= 6
  /\ AttemptsInFlight <= 6
  /\ (effect = "mounted" /\ retryCount = 5 /\ opens = 0) => AttemptsInFlight = 6
  /\ (AfterClose /\ lastEvent.n = 5) =>
        error = "MaxRetries" /\ NothingPending /\ AllSocketsClosed
  /\ error = "MaxRetries" =>
        /\ retryCount = 5
        /\ NothingPending
        /\ AllSocketsClosed
        /\ opens = 0 => (attempts = 6 /\ Len(sockets) = 6)

\* C4 witness: the sixth socket has closed abnormally and the error is terminal
C4_Witness ==
  /\ error = "MaxRetries" /\ opens = 0 /\ Len(sockets) = 6
  /\ AfterClose /\ lastEvent.code = 1006

\* the URL the claim expects every attempt to dial
C5_ExpectedUrl ==
  IF pageProtocol /= "https:" /\ Len(url) >= 6
     /\ SubSeq(url, 1, 6) = <<"w","s","s",":","/","/">>
    THEN <<"w","s",":","/","/">> \o SubSeq(url, 7, Len(url))
    ELSE url

\* C5: on a page that is not https, a wss:// URL is dialed, at every attempt,
\* with its scheme replaced by ws:// and every connect() reports the
\* downgrade; otherwise the URL is dialed unchanged and no downgrade is ever
\* reported.  wss://localhost:4000 on an http page is dialed as
\* ws://localhost:4000.
C5_ProtocolDowngrade ==
  /\ \A s \in 1..Len(sockets) : sockets[s].url = C5_ExpectedUrl
  /\ \A i \in 1..Len(dialPending) : dialPending[i] = C5_ExpectedUrl
  /\ downgradeReports = (IF C5_ExpectedUrl /= url THEN connectCalls ELSE 0)
  /\ (error = "InsecureWebSocket") => C5_ExpectedUrl /= url
  /\ (pageProtocol = "http:" /\ url = WssScheme \o Localhost4000) =>
        \A s \in 1..Len(sockets) :
           sockets[s].url = <<"w","s",":","/","/","l","o","c","a","l","h","o",
                              "s","t",":","4","0","0","0">>

\* C5 witness: on an http page the retry of wss://localhost:4000 dialed
\* ws://localhost:4000 too, and both connect() calls reported the downgrade
C5_Witness ==
  /\ pageProtocol = "http:" /\ url = WssScheme \o Localhost4000
  /\ Len(sockets) >= 2
  /\ sockets[2].url = WsScheme \o Localhost4000
  /\ downgradeReports = 2
  /\ error = "InsecureWebSocket"

----------------------------------------------------------------------------
\* Properties of the capture, checked under SpecCapture

RECURSIVE TotalBytes(_)
\* the bytes of a sequence of fragments
TotalBytes(w) == IF w = <<>> THEN 0 ELSE Head(w).size + TotalBytes(Tail(w))

NonEmpty(f) == f.size > 0

\* C6: a chunk is handed to the audio callback only if its size is strictly
\* greater than 1000 bytes, its size being the bytes of all the fragments
\* that arrived since the previous flush; no chunk of 1000 bytes or fewer is
\* ever dispatched.
C6_DispatchOnlyAboveThreshold ==
  \A i \in 1..Len(dispatched) :
     /\ dispatched[i].size > 1000
     /\ dispatched[i].size = TotalBytes(dispatched[i].window)

\* two 1000-byte fragments flushed together are dispatched as 2000 bytes
C6_Witness ==
  /\ dispatched /= <<>>
  /\ Len(dispatched[1].frags) = 2
  /\ dispatched[1].size = 2000

\* C7: every dispatched chunk holds, in arrival order, exactly the non-empty
\* fragments that arrived since the previous flush, none of them twice.
C7_ChunkIsWindowInOrder ==
  \A i \in 1..Len(dispatched) :
     /\ dispatched[i].frags = SelectSeq(dispatched[i].window, NonEmpty)
     /\ \A a, b \in 1..Len(dispatched[i].frags) :
           a < b => dispatched[i].frags[a].id < dispatched[i].frags[b].id

\* a chunk of the second and third fragments, the first having been flushed
\* before
C7_Witness ==
  /\ dispatched /= <<>>
  /\ Len(dispatched[1].frags) = 2
  /\ dispatched[1].frags[1].id = 2
  /\ dispatched[1].frags[2].id = 3

\* how a candidate fails its trial
CandidateFailures == SyncFailures \cup AsyncFailures

\* C8: the selected configuration is the first candidate of the list that is
\* supported and whose trial fires onstart in time, every earlier candidate
\* having been unsupported, thrown, raised an error or timed out; every live
\* encoder of the session is created with the selected configuration, which
\* the candidate list fixes for the whole session.
C8_FirstWorkingCandidateSelected ==
  \A k \in 1..Len(sessions) :
     LET wc == sessions[k].workingConfig
     IN /\ wc /= 0 =>
             /\ profile[wc] = "starts"
             /\ \A j \in 1..(wc - 1) : profile[j] \in CandidateFailures
        /\ sessions[k].pc \in {"done", "recover", "failed"}
             /\ sessions[k].stream /= 0 /\ wc = 0 =>
             \A j \in 1..NumConfigs : profile[j] \in CandidateFailures
        /\ \A r \in 1..Len(recorders) :
             recorders[r].session = k => wc /= 0 /\ recorders[r].cfg = wc

\* a session that selected the fourth candidate, audio/ogg, after three
\* failures and runs its live encoder with it
C8_Witness ==
  \E k \in 1..Len(sessions) :
     /\ sessions[k].workingConfig = 4
     /\ configs[4] = "audio/ogg"
     /\ sessions[k].recorder /= 0
     /\ recorders[sessions[k].recorder].cfg = 4
     /\ recorders[sessions[k].recorder].state = "recording"

\* session k ended its start without audio: no candidate worked, or the live
\* encoder threw from start()
AudioLess(k) == sessions[k].outcome = "audioless"

\* C9: a start that ends without a working encoder still completes: frame
\* sampling runs, the capture is streaming and the page was told the capture
\* began, and mediaRecorderRef retains no encoder of that session; no encoder
\* of the session ever records and no chunk of the session is dispatched.
C9_AudioLessStartCompletes ==
  \A k \in 1..Len(sessions) :
     AudioLess(k) =>
       /\ lastOp = Op("complete", k, 0) =>
            /\ isStreaming
            /\ isCapturing
            /\ frameIntervalRef = k
            /\ k \in frameTimers
            /\ mediaRecorderRef = 0
                 \/ recorders[mediaRecorderRef].session /= k
       /\ \A r \in 1..Len(recorders) :
            recorders[r].session = k => recorders[r].state = "inactive"
       /\ sessions[k].audioChunks = <<>>
       /\ \A i \in 1..Len(dispatched) : dispatched[i].session /= k

\* a start whose live encoder threw from start() has just completed
C9_Witness ==
  \E k \in 1..Len(sessions) :
     /\ AudioLess(k)
     /\ lastOp = Op("complete", k, 0)
     /\ sessions[k].workingConfig /= 0
     /\ mediaRecorderRef = 0
     /\ isStreaming

\* what a stop leaves observable: tracks, encoder, timers, the
\* audio-analysis graph and the flags
stopObservables ==
  <<streamRef, streams, mediaRecorderRef, recorders, frameIntervalRef,
    frameTimers, audioChunkTimerRef, chunkTimers, animationRef,
    audioContextRef, contexts, analyserRef, isStreaming, isCapturing,
    captureError, permissionStatus>>

\* C10: a stop that directly follows a stop changes nothing observable.
C10_StopTwiceSameAsOnce ==
  [][lastOp.op = "stop" /\ lastOp'.op = "stop" => UNCHANGED stopObservables]_vars

\* a second stop in a row, after a capture that was streaming
C10_Witness ==
  /\ lastOp = Op("stop", 0, 2)
  /\ Len(streams) > 0
  /\ ~isStreaming

\* no track is live, no encoder records or has its onstop pending, no timer
\* runs, no audio context is open, nothing is streaming and no recognition is
\* under way
NothingRunning ==
  /\ \A i \in 1..Len(streams) : ~streams[i].live
  /\ \A r \in 1..Len(recorders) :
       recorders[r].state = "inactive" /\ ~recorders[r].stopPending
  /\ trials = {}
  /\ frameTimers = {}
  /\ chunkTimers = {}
  /\ \A c \in 1..Len(contexts) : contexts[c] = "closed"
  /\ ~animationRef
  /\ ~isStreaming
  /\ ~isCapturing
  /\ \A r \in 1..Len(recognitions) :
       recognitions[r].state \notin {"starting", "active"}

\* the pending calls of startMediaCapture as the program holds them: where
\* each stands and its locals, without the bookkeeping field sinceFlush
calls ==
  [k \in 1..Len(sessions) |->
     [pc |-> sessions[k].pc, cand |-> sessions[k].cand,
      stream |-> sessions[k].stream,
      workingConfig |-> sessions[k].workingConfig,
      recorder |-> sessions[k].recorder,
      audioChunks |-> sessions[k].audioChunks,
      outcome |-> sessions[k].outcome, onStart |-> sessions[k].onStart]]

\* the controller's refs, resources and state
controllerState ==
  <<streamRef, streams, mediaRecorderRef, recorders, trials, frameIntervalRef,
    frameTimers, audioChunkTimerRef, chunkTimers, animationRef,
    audioContextRef, contexts, analyserRef, isStreaming, captureError,
    permissionStatus, calls, fragCount>>

\* C11: a stop while nothing is running changes nothing: it sets no error,
\* leaves the controller's refs, resources and state as they are, hands no
\* chunk to the audio callback and leaves the page's capturing flag and
\* transcription as they are.
C11_StopWhenIdleIsNoOp ==
  [][NothingRunning /\ lastOp'.op = "stop" =>
       /\ UNCHANGED controllerState
       /\ UNCHANGED <<isCapturing, speechVars>>
       /\ dispatched' = <<>>]_vars

\* a stop before any start
C11_Witness ==
  /\ lastOp.op = "stop"
  /\ sessions = <<>>
  /\ NothingRunning

----------------------------------------------------------------------------
\* Properties of overlapping starts, checked under SpecOverlap

liveStreams == { i \in 1..Len(streams) : streams[i].live }

recordingEncoders == { r \in 1..Len(recorders) : recorders[r].state = "recording" }

\* C12: at most one capture session is live: in no reachable state are there
\* two acquired streams with live tracks, two recording encoders, two running
\* frame-sampling timers or two running flush timers.
C12_Original ==
  /\ Cardinality(liveStreams) <= 1
  /\ Cardinality(recordingEncoders) <= 1
  /\ Cardinality(frameTimers) <= 1
  /\ Cardinality(chunkTimers) <= 1

\* nothing a capture owns is left: no live stream, no frame or flush timer, no
\* recording encoder, and the streaming flag is down
Released ==
  /\ liveStreams = {}
  /\ frameTimers = {}
  /\ chunkTimers = {}
  /\ recordingEncoders = {}
  /\ ~isStreaming

\* C13: when stopMediaCapture ran while a call of startMediaCapture was still
\* awaiting the device or a trial, and the awaited step then resolves and the
\* call runs to its end, nothing is left: no live track, no frame or flush
\* timer, no recording encoder, and capture is not streaming.
C13_Original ==
  [][\A k \in 1..Len(sessions) :
       /\ lastOp.op = "stop"
       /\ sessions[k].pc \in pendingPcs
       /\ sessions'[k].pc = "done"
       => Released']_vars

\* C14: right after stopMediaCapture returns, wherever the start had got to:
\* no frame or flush timer is pending, every acquired track is stopped and
\* the stream ref is cleared, no encoder is recording and the encoder ref is
\* cleared, the audio graph is closed, the streaming flag is false, and the
\* caller has been told (the page no longer captures or listens).
C14_Original ==
  lastOp.op = "stop" =>
    /\ frameTimers = {} /\ frameIntervalRef = 0
    /\ chunkTimers = {} /\ audioChunkTimerRef = 0
    /\ liveStreams = {} /\ streamRef = 0
    /\ recordingEncoders = {} /\ mediaRecorderRef = 0
    /\ \A c \in 1..Len(contexts) : contexts[c] = "closed"
    /\ audioContextRef = 0 /\ ~analyserRef /\ ~animationRef
    /\ ~isStreaming
    /\ ~isCapturing /\ ~isListening

\* C15: a stop cancels the flush timer, and the last flush comes no later
\* than the notification of the caller: once the page has been told that the
\* capture ended, no chunk is handed to onAudioData any more, by the encoder's
\* stop handler or by a tick of the flush timer.
C15_Original ==
  [][/\ lastOp'.op = "stop" => chunkTimers' = {} /\ audioChunkTimerRef' = 0
     /\ ~isCapturing => dispatched' = <<>>]_vars

-----------------------------------------------------------------------------
\* Properties of inbound messages, checked under SpecChannel

\* the step that ran is ws.onmessage
AfterMessage(last) == last.type = "message"

\* the frame's text is not valid JSON
NotJson(last) == AfterMessage(last) /\ JSONparse(last.text).kind = "SyntaxError"

\* the frame's text parses to an object
ParsedMessage(last) == AfterMessage(last) /\ JSONparse(last.text).kind = "object"

\* C19: a frame that is not valid JSON is dropped: the messages, the
\* connection state, the retry counter and the error state stay as they are,
\* the sockets stay as they are (the one that received it open), and a message
\* that arrives right after it is parsed and appended.
C19_MalformedIsDropped ==
  [][/\ NotJson(lastEvent') =>
          /\ UNCHANGED <<messages, isConnected, retryCount, error>>
          /\ UNCHANGED <<sockets, wsRef, timers, dialPending, sent>>
     /\ NotJson(lastEvent) /\ ParsedMessage(lastEvent')
          /\ JSONparse(lastEvent'.text).type /= "pong" =>
          messages' = Append(messages, [type |-> JSONparse(lastEvent'.text).type])
    ]_vars

\* a frame that is not JSON arrived at a connected channel that holds a
\* message
C19_Witness ==
  /\ NotJson(lastEvent)
  /\ messages /= <<>>
  /\ isConnected
  /\ \E s \in 1..Len(sockets) : sockets[s].readyState = "OPEN"

\* C20: no message of type pong is in the list; a pong leaves the list as it
\* is, every other frame that parses to a message is appended once at the end
\* of the list, and no step makes the list shorter or changes what it holds.
C20_PongConsumedOthersAppended ==
  [][/\ \A i \in 1..Len(messages') : messages'[i].type /= "pong"
     /\ ParsedMessage(lastEvent') =>
          messages' = IF JSONparse(lastEvent'.text).type = "pong"
                        THEN messages
                        ELSE Append(messages,
                                    [type |-> JSONparse(lastEvent'.text).type])
     /\ Len(messages') >= Len(messages)
     /\ SubSeq(messages', 1, Len(messages)) = messages]_vars

\* a pong arrived at a list that holds two messages of different types
C20_Witness ==
  /\ Len(messages) = 2
  /\ messages[1].type /= messages[2].type
  /\ lastEvent.type = "message" /\ JSONparse(lastEvent.text).type = "pong"

-----------------------------------------------------------------------------
\* Properties of the transcription session, checked under SpecSpeech

\* the step that ran is recognition.onerror with event.error = "no-speech"
NoSpeechError(last) == last.ev = "error" /\ last.kind = "no-speech"

\* C16: a recognition error of kind no-speech surfaces no error (the error
\* state is as before), leaves the results as they are and leaves the session
\* listening if it was.
C16_NoSpeechIsSuppressed ==
  [][NoSpeechError(lastSpeech') =>
       UNCHANGED <<speechError, results, isListening>>]_vars

\* a no-speech error arrived at a session that listens and has results
C16_Witness ==
  /\ NoSpeechError(lastSpeech)
  /\ isListening
  /\ speechError = "null"
  /\ results /= <<>>

\* the caller still intends to listen: the page captures (handleStartCapture
\* called startListening, handleStopCapture has not called stopListening
\* since) and no genuine failure has been surfaced since
IntendsToListen == isSupported /\ isCapturing /\ speechError = "null"

\* this step is recognition.onend of the session's current recognition
EndedSignal(r) ==
  /\ r = recognitionRef
  /\ r \in 1..Len(recognitions)
  /\ recognitions[r].state /= "ended"
  /\ recognitions'[r].state = "ended"

\* C17: when the engine signals ended while the caller still intends to
\* listen, the restart is scheduled (the brief delay), and a scheduled restart
\* is what brings the session back to listening.
C17_Original ==
  [][\A r \in 1..Len(recognitions) :
       EndedSignal(r) /\ IntendsToListen => r \in restartTimers']_vars

\* the step that ran is recognition.onerror with a kind other than no-speech
GenuineFailure(last) == last.ev = "error" /\ last.kind /= "no-speech"

\* C18: a genuine recognition failure surfaces its error and takes the session
\* out of listening, and the ended signal that follows it schedules no
\* restart.
C18_Original ==
  [][/\ GenuineFailure(lastSpeech') =>
          speechError' = errorMessage(lastSpeech'.kind) /\ ~isListening'
     /\ \A r \in 1..Len(recognitions) :
          GenuineFailure(lastSpeech) /\ lastSpeech.r = r /\ EndedSignal(r)
            => r \notin restartTimers']_vars

-----------------------------------------------------------------------------
\* Properties of the results and the transcript, checked under SpecTranscript

\* C21: the final entries of results are append-only: in every step each final
\* entry keeps its place and its content, a final entry that is new stands at
\* the end of the list behind every entry that was there, and the finals stand
\* in the order of their emission.
C21_FinalsAppendOnly ==
  [][/\ \A i \in 1..Len(results) :
          results[i].isFinal => i <= Len(results') /\ results'[i] = results[i]
     /\ \A j \in 1..Len(results') :
          results'[j].isFinal /\ (j > Len(results) \/ results'[j] /= results[j])
            => j > Len(results) /\ results'[j].timestamp = now'
     /\ \A i, j \in 1..Len(results') :
          i < j /\ results'[i].isFinal /\ results'[j].isFinal
            => results'[i].timestamp <= results'[j].timestamp]_vars

\* an interim result arrived behind a final one, later than it
C21_Witness ==
  /\ lastSpeech.ev = "result"
  /\ Len(results) >= 2
  /\ results[1].isFinal
  /\ ~results[Len(results)].isFinal
  /\ results[Len(results)].timestamp > results[1].timestamp

\* the step that ran is the page's effect on speechResults
AfterEffect(last) == last.ev = "effect"

\* the transcript holds an entry for the final result res: the same trimmed
\* text, less than 1000 ms away
Held(ts, res) ==
  \E i \in 1..Len(ts) :
    ts[i].text = trim(res.text) /\ Abs(ts[i].timestamp - res.timestamp) < 1000

\* C22: the transcript never holds two entries with the same text less than
\* 1000 ms apart; after the effect ran, every final result is held (it was
\* added unless an entry with its trimmed text less than 1000 ms away was
\* there); the effect running again on the same results adds nothing; and the
\* transcript only grows at its end.
C22_FinalsDeliveredOnce ==
  [][/\ \A i, j \in 1..Len(transcriptions') :
          i < j /\ transcriptions'[i].text = transcriptions'[j].text =>
            Abs(transcriptions'[i].timestamp - transcriptions'[j].timestamp)
              >= 1000
     /\ AfterEffect(lastSpeech') =>
          \A i \in 1..Len(results') :
            results'[i].isFinal => Held(transcriptions', results'[i])
     /\ AfterEffect(lastSpeech) /\ AfterEffect(lastSpeech') =>
          transcriptions' = transcriptions
     /\ Len(transcriptions') >= Len(transcriptions)
     /\ SubSeq(transcriptions', 1, Len(transcriptions)) = transcriptions]_vars

\* the effect ran on two finals whose texts differ only by a blank, less than
\* 1000 ms apart, and on a third with that text 1000 ms later: the transcript
\* holds the text twice
C22_Witness ==
  /\ AfterEffect(lastSpeech)
  /\ Len(results) = 3
  /\ \A i \in 1..3 : results[i].isFinal /\ trim(results[i].text) = <<"a">>
  /\ results[1].text /= results[2].text
  /\ results[2].timestamp = results[1].timestamp
  /\ results[3].timestamp = results[1].timestamp + 1000
  /\ Len(transcriptions) = 2

----------------------------------------------------------------------------
\* Properties of the aggregator's flushes

\* the step was a flush of session k: a tick of the chunk timer that ran
\* sendCollectedAudio, or the encoder's onstop
FlushOf(k) == lastOp'.op = "flush" /\ lastOp'.k = k

\* the fragments of a window that carry data, the ones ondataavailable keeps
carrying(window) == SelectSeq(window, LAMBDA f : f.size > 0)

b1 == [id |-> 1, size |-> 600]

b2 == [id |-> 2, size |-> 600]

\* C23 as stated: when a flush found only the 600-byte fragment b1 pending
\* and the 600-byte fragment b2 arrived after that flush, the flush that finds
\* b2 dispatches b1 and b2 combined in one chunk of 1200 bytes.
C23_Original ==
  [][\A k \in 1..Len(sessions) :
       (FlushOf(k) /\ sessions[k].audioChunks = <<b2>> /\ lastOp'.n = 600)
         => /\ dispatched' /= <<>>
            /\ dispatched'[1].frags = <<b1, b2>>
            /\ passesThreshold(dispatched'[1].size)]_vars

\* C23: a flush that finds 600 bytes pending dispatches nothing and leaves
\* nothing pending, so a fragment that arrives after the flush is flushed
\* without it; a chunk is dispatched only by a flush, holds exactly the
\* fragments that arrived since the previous flush, and these exceed 1000
\* bytes together.
C23_LoneFragmentIsNotCarriedOver ==
  [][/\ \A k \in 1..Len(sessions) :
          (FlushOf(k) /\ lastOp'.n = 600)
            => dispatched' = <<>> /\ sessions'[k].audioChunks = <<>>
     /\ dispatched' /= <<>>
          => /\ lastOp'.op = "flush"
             /\ Len(dispatched') = 1
             /\ dispatched'[1].session = lastOp'.k
             /\ dispatched'[1].frags = carrying(dispatched'[1].window)
             /\ dispatched'[1].size = lastOp'.n
             /\ dispatched'[1].size > 1000]_vars

\* b1 was flushed alone, b2 arrived after that flush, and the tick that found
\* b2 alone has dispatched nothing and left nothing pending
C23_Witness ==
  /\ lastOp = Op("flush", 1, 600)
  /\ fragCount = 2
  /\ mediaRecorderRef /= 0
  /\ recorders[mediaRecorderRef].state = "recording"
  /\ dispatched = <<>>
  /\ sessions[1].audioChunks = <<>>

b3 == [id |-> 3, size |-> 600]

\* C24: after every flush, dispatched or not, nothing is pending; a flush
\* dispatches nothing unless its fragments exceed the threshold together; and
\* every fragment of a dispatched chunk arrived after the previous flush, so
\* a fragment that a flush discarded is in no later chunk.
C24_FlushDiscardsBelowThreshold ==
  [][\A k \in 1..Len(sessions) :
       FlushOf(k)
         => /\ sessions'[k].audioChunks = <<>>
            /\ sessions'[k].sinceFlush = <<>>
            /\ ~passesThreshold(lastOp'.n) => dispatched' = <<>>
            /\ \A c \in 1..Len(dispatched') :
                 \A i \in 1..Len(dispatched'[c].frags) :
                   \/ \E j \in 1..Len(sessions[k].sinceFlush) :
                        sessions[k].sinceFlush[j] = dispatched'[c].frags[i]
                   \/ /\ fragCount' = fragCount + 1
                      /\ dispatched'[c].frags[i].id = fragCount']_vars

\* b1 was discarded by a flush that found it alone, and the next chunk holds
\* b2 and b3 without it
C24_Witness ==
  /\ lastOp = Op("flush", 1, 1200)
  /\ dispatched /= <<>>
  /\ dispatched[1].frags = <<b2, b3>>
  /\ sessions[1].audioChunks = <<>>

----------------------------------------------------------------------------
\* Properties of the start of a capture, checked under SpecCapture

\* getUserMedia of session k was rejected
Refused(k) == sessions[k].pc = "failed" /\ sessions[k].stream = 0

\* a call of startMediaCapture has not settled yet
StartInFlight == \E k \in 1..Len(sessions) : sessions[k].pc \in pendingPcs

\* the texts setError shows for a rejected getUserMedia
AcquireErrorTexts == {"PermissionDenied", "NoDeviceFound",
                      "ConstraintsNotSupported", "ErrorAccessingMediaDevices"}

\* C25: onStartCapture is called only by the step that completes a call of
\* startMediaCapture whose getUserMedia resolved and whose probing loop has
\* ended.  The step in which getUserMedia is rejected sets the error text and
\* the denied permission status and touches neither the streaming flag, the
\* caller, a stream, an encoder nor a timer; the rejected call never does
\* anything again and owns no stream, encoder or timer; and once permission is
\* denied with no call in flight, it stays denied and no call is started.
C25_StartNotifiesAfterAcquisition ==
  [][/\ (~isCapturing /\ isCapturing')
          => \E k \in 1..Len(sessions) :
               /\ sessions[k].pc \in pendingPcs
               /\ sessions'[k].pc = "done"
               /\ sessions'[k].cand = 0
               /\ sessions'[k].stream \in 1..Len(streams')
               /\ isStreaming'
     /\ \A k \in 1..Len(sessions) :
          (sessions[k].pc = "acquire" /\ sessions'[k].pc = "failed")
            => /\ captureError' \in AcquireErrorTexts
               /\ permissionStatus' = "denied"
               /\ UNCHANGED <<isStreaming, isCapturing, streams, streamRef,
                              recorders, mediaRecorderRef, trials, frameTimers,
                              chunkTimers, listens, recognitions>>
     /\ \A k \in 1..Len(sessions) :
          Refused(k)
            => /\ sessions'[k] = sessions[k]
               /\ k \notin frameTimers'
               /\ \A r \in 1..Len(recorders') : recorders'[r].session /= k
               /\ \A i \in 1..Len(streams') : streams'[i].session /= k
     /\ (permissionStatus = "denied" /\ ~StartInFlight)
          => /\ permissionStatus' = "denied"
             /\ Len(sessions') = Len(sessions)
             /\ ~StartInFlight'
             /\ captureError' = captureError]_vars

\* permission was denied to the only call of startMediaCapture: the error is
\* shown, the button is disabled and capture has not begun
C25_Witness ==
  /\ Len(sessions) = 1
  /\ Refused(1)
  /\ captureError = "PermissionDenied"
  /\ permissionStatus = "denied"
  /\ ~isStreaming
  /\ ~isCapturing
  /\ frameTimers = {} /\ chunkTimers = {} /\ recorders = <<>>

----------------------------------------------------------------------------
\* Properties of the channel's sockets, checked under SpecChannel

\* C26: right after an open event the retry counter is 0 and no error is
\* shown; the dials made since the last open are the reconnections counted
\* since it, at most 5; and after an open a close with a code other than
\* 1000, 1001 and 1005 schedules a reconnection as long as fewer than 5 were
\* counted since the open.
C26_OpenResetsRetries ==
  /\ lastEvent.type = "open" => retryCount = 0 /\ error = "null"
  /\ opens > 0 => attempts <= retryCount /\ retryCount <= maxRetries
  /\ (opens > 0 /\ AfterClose /\ lastEvent.code \notin {1000, 1001, 1005}
        /\ lastEvent.n < maxRetries)
       => ReconnectScheduled /\ retryCount = lastEvent.n + 1

\* a socket opened after at least one reconnection, and five reconnections
\* have been dialled since that open
C26_Witness ==
  /\ opens = 1
  /\ attempts = 5
  /\ retryCount = 5
  /\ connectCalls >= 7

\* the handler that just ran was event t of a socket
SocketEvent(t) == lastEvent'.type = t

\* C28: a watchdog is pending only for a socket that is still connecting and
\* has had no open, close or error event; when it fires, that socket is being
\* closed and no socket that has opened changes; and the close event of a
\* socket the watchdog closed is handled by onclose like any other: the
\* connected flag is cleared and a reconnection is scheduled and counted
\* exactly when shouldReconnect holds for its code.
C28_WatchdogClosesConnectingOnly ==
  [][/\ \A s \in 1..Len(sockets') :
          sockets'[s].watchdog => sockets'[s].readyState = "CONNECTING"
     /\ \A s \in 1..Len(sockets) :
          /\ (SocketEvent("watchdog") /\ sockets[s].watchdog)
               => sockets'[s].readyState = "CLOSING"
          /\ (SocketEvent("watchdog") /\ sockets[s].readyState = "OPEN")
               => sockets'[s] = sockets[s]
          /\ (SocketEvent("open") \/ SocketEvent("close") \/ SocketEvent("error"))
               => (sockets'[s] /= sockets[s] => ~sockets'[s].watchdog)
          /\ (sockets[s].readyState = "CLOSING" /\ opens = 0
                /\ sockets'[s].readyState = "CLOSED")
               => /\ SocketEvent("close")
                  /\ ~isConnected'
                  /\ IF shouldReconnect(lastEvent'.code, retryCount)
                       THEN /\ retryCount' = retryCount + 1
                            /\ \E t \in timers' \ timers :
                                 t.delay = backoffDelay(retryCount')
                       ELSE /\ retryCount' = retryCount
                            /\ timers' = timers]_vars

\* the watchdog has fired for a socket that never opened, which is now being
\* closed
C28_Witness ==
  /\ lastEvent.type = "watchdog"
  /\ opens = 0
  /\ \E s \in 1..Len(sockets) :
       sockets[s].readyState = "CLOSING" /\ ~sockets[s].watchdog

\* C30 as stated: the error "connection failed after multiple attempts" is
\* set only by the handling of a close event whose code is neither 1000 nor
\* 1001 and that finds the retry counter at the ceiling.
C30_Original ==
  [][(error' = "MaxRetries" /\ error /= "MaxRetries")
       => /\ SocketEvent("close")
          /\ lastEvent'.code \notin {1000, 1001}
          /\ retryCount >= maxRetries]_vars

\* C29 as stated: once the effect's cleanup has run, no socket is connecting
\* or open, no dial is made and no connect() is called.
C29_Original ==
  [][effect' = "cleaned"
       => /\ \A s \in 1..Len(sockets') :
               sockets'[s].readyState \notin {"CONNECTING", "OPEN"}
          /\ attempts' <= attempts
          /\ connectCalls' = connectCalls]_vars

----------------------------------------------------------------------------
\* Properties of the channel across a change of the url, checked under
\* SpecRerun

Live(s) == sockets[s].readyState \in {"CONNECTING", "OPEN"}

\* C27 as stated: a socket is created only when every earlier socket has
\* closed, at most one socket is connecting or open, an open socket is the
\* current one, and the connected flag is set exactly from the open event of
\* the current socket to its close event.
C27_Original ==
  [][/\ Len(sockets') > Len(sockets)
          => \A s \in 1..Len(sockets) : sockets[s].readyState = "CLOSED"
     /\ Cardinality({s \in 1..Len(sockets') :
                       sockets'[s].readyState \in {"CONNECTING", "OPEN"}}) <= 1
     /\ \A s \in 1..Len(sockets') :
          sockets'[s].readyState = "OPEN" => isConnected' /\ s = wsRef'
     /\ isConnected'
          => /\ wsRef' /= 0
             /\ sockets'[wsRef'].readyState \in {"OPEN", "CLOSING"}]_vars

----------------------------------------------------------------------------
\* Properties of interim results, checked under SpecTranscript

\* C34 as stated: the results hold at most one interim entry, and an interim
\* entry is the last one, so a final result takes the place of the interim
\* entry that was pending when it arrived.
C34_Original ==
  \A i \in 1..Len(results) : ~results[i].isFinal => i = Len(results)

----------------------------------------------------------------------------
\* Properties of starting and stopping the transcription, checked under
\* SpecSpeech

\* recognition r was started and has neither been stopped nor ended
Running(r) == recognitions[r].state \in {"starting", "active"}

\* C32 as stated: at most one recognition is started and not stopped.
C32_Original ==
  Cardinality({r \in 1..Len(recognitions) : Running(r)}) <= 1

\* C33 as stated: while the last call of the page was stopListening (the page
\* is not capturing), no recognition is created or started and isListening
\* does not become true.
C33_Original ==
  [][(~isCapturing /\ ~isCapturing')
       => /\ Len(recognitions') = Len(recognitions)
          /\ \A r \in 1..Len(recognitions) :
               recognitions'[r].state = "starting"
                 => recognitions[r].state = "starting"
          /\ isListening' => isListening]_vars

----------------------------------------------------------------------------
\* Properties of outbound messages, checked under SpecOutbound

\* C31 as stated: a frame is written only to a socket that is open, and the
\* audio message of a sendAudioData call is written, if at all, to the socket
\* that was open when the call was made, never to a socket opened later.
C31_Original ==
  [][\A i \in 1..Len(sent') :
       i > Len(sent)
         => /\ sockets'[sent'[i].sock].readyState = "OPEN"
            /\ SocketEvent("reader") => sent'[i].sock = lastEvent'.n]_vars

----------------------------------------------------------------------------
\* Properties of the page's dispatch of inbound messages, checked under
\* SpecInbound

\* the entries of the transcription list made from the i-th message
EntriesOf(i) ==
  {j \in 1..Len(transcriptions) : transcriptions[j] = fromMessage(i)}

\* C35 as stated: no inbound transcription message has more than one entry
\* in the page's transcription list, and once the effect has run each has
\* exactly one.
C35_Original ==
  \A i \in 1..Len(messages) :
     messages[i].type = "transcription"
       => /\ Cardinality(EntriesOf(i)) <= 1
          /\ lastEvent.type = "effect" => Cardinality(EntriesOf(i)) = 1

----------------------------------------------------------------------------
\* Properties of what a failed or stopped capture leaves behind, checked
\* under SpecCapture

\* C36 as stated: whenever capture is not streaming and no call of
\* startMediaCapture is in progress, no acquired stream has live tracks and no
\* encoder is recording; in particular a start that threw after getUserMedia
\* resolved has released what it acquired.
C36_Original ==
  (~isStreaming /\ ~StartInFlight)
    => /\ \A i \in 1..Len(streams) : ~streams[i].live
       /\ \A r \in 1..Len(recorders) : recorders[r].state /= "recording"

----------------------------------------------------------------------------
\* Properties of the periodic flush, checked under SpecEncoder

\* a tick of the flush interval has run sendCollectedAudio: a flush that
\* leaves the recorders as they were
TickFlushed == lastOp'.op = "flush" /\ recorders' = recorders

\* C37 as stated: a tick that fires while the encoder is recording finds the
\* fragments encoded since the previous tick in the aggregator's buffer, so
\* that the tick has audio to dispatch without waiting for stop.
C37_Original == [][TickFlushed => lastOp'.n > 0]_vars

----------------------------------------------------------------------------
\* Properties of the trial encoders, checked under SpecCapture

\* C38 as stated: a trial encoder that was started and not yet stopped
\* belongs to a call that is still negotiating; once the live encoder of a
\* call is created, or the call has ended, none of its trials is recording.
C38_Original ==
  \A t \in trials :
     /\ sessions[t.session].pc = "probe"
     /\ \A r \in 1..Len(recorders) : recorders[r].session /= t.session

----------------------------------------------------------------------------
\* Properties of the frame interval, checked under SpecFrames

\* captureFrame has handed a frame to the caller
FrameHanded == lastOp'.op = "frame"

\* C39 as stated: a frame is handed to the caller only while capture is
\* active, that is while the component is streaming a stream it holds whose
\* tracks are live: none before getUserMedia has resolved and none after
\* stopMediaCapture has returned.
C39_Original ==
  [][FrameHanded => /\ isStreaming
                    /\ streamRef /= 0
                    /\ streams[streamRef].live]_vars

====
